---- MODULE Spec2Model ----
(***************************************************************************)
(* Model of the reactive core of JAD: the thread-safe ChannelStore         *)
(* (controller/channels.py), the derived-channel transform engine          *)
(* (controller/element_list.py) and the per-tick evaluation of display     *)
(* nodes (controller/page.py, elements/element.py).                        *)
(*                                                                         *)
(* Channel values are dynamically typed.  A value is a record              *)
(*   [kind, n, d, s]                                                       *)
(* kind in {"absent","none","int","float","bool","str","list"}; n/d is     *)
(* the number held by an int, float or bool (floats are modelled as exact  *)
(* rationals in lowest terms, d > 0); s is the character sequence of a     *)
(* str.  "absent" is the marker of a key that is not in a dict.            *)
(***************************************************************************)
EXTENDS Integers, Sequences, FiniteSets, TLC

\* ------------------------------------------------------------------------
\* Python values
\* ------------------------------------------------------------------------

Abs(x) == IF x < 0 THEN -x ELSE x

RECURSIVE Gcd(_, _)
Gcd(a, b) == IF b = 0 THEN a ELSE Gcd(b, a % b)

Rat(n, d) ==
    LET g == Gcd(Abs(n), Abs(d))
        sg == IF d < 0 THEN -1 ELSE 1
    IN  [n |-> sg * (n \div g), d |-> sg * (d \div g)]

Absent == [kind |-> "absent", n |-> 0, d |-> 1, s |-> <<>>]
PyNone == [kind |-> "none", n |-> 0, d |-> 1, s |-> <<>>]
PyInt(i) == [kind |-> "int", n |-> i, d |-> 1, s |-> <<>>]
PyFloat(n, d) == [kind |-> "float", n |-> Rat(n, d).n, d |-> Rat(n, d).d, s |-> <<>>]
PyBool(b) == [kind |-> "bool", n |-> (IF b THEN 1 ELSE 0), d |-> 1, s |-> <<>>]
PyStr(chars) == [kind |-> "str", n |-> 0, d |-> 1, s |-> chars]
PyList == [kind |-> "list", n |-> 0, d |-> 1, s |-> <<>>]

IsNumber(x) == x.kind \in {"int", "float", "bool"}

\* x is None, as returned by dict.get for a missing key or a stored None
IsNone(x) == x.kind \in {"absent", "none"}

Digits == {"0", "1", "2", "3", "4", "5", "6", "7", "8", "9"}

DigitVal(c) ==
    CASE c = "0" -> 0 [] c = "1" -> 1 [] c = "2" -> 2 [] c = "3" -> 3
      [] c = "4" -> 4 [] c = "5" -> 5 [] c = "6" -> 6 [] c = "7" -> 7
      [] c = "8" -> 8 [] c = "9" -> 9

RECURSIVE Pow10(_)
Pow10(k) == IF k = 0 THEN 1 ELSE 10 * Pow10(k - 1)

\* the integer written by the digits of chars, '.' skipped
RECURSIVE DigitsValue(_, _)
DigitsValue(chars, acc) ==
    IF chars = <<>> THEN acc
    ELSE IF Head(chars) = "." THEN DigitsValue(Tail(chars), acc)
    ELSE DigitsValue(Tail(chars), 10 * acc + DigitVal(Head(chars)))

\* float(str): optional sign, digits with at most one '.', at least one digit
ParseFloat(chars) ==
    LET signed == Len(chars) > 0 /\ chars[1] \in {"-", "+"}
        body == IF signed THEN Tail(chars) ELSE chars
        dots == {i \in 1..Len(body) : body[i] = "."}
        wellFormed == /\ \A i \in 1..Len(body) : body[i] \in Digits \cup {"."}
                      /\ Cardinality(dots) <= 1
                      /\ Len(body) - Cardinality(dots) >= 1
        fracLen == IF dots = {} THEN 0 ELSE Len(body) - (CHOOSE i \in dots : TRUE)
        mag == DigitsValue(body, 0)
        sgn == IF signed /\ chars[1] = "-" THEN -1 ELSE 1
    IN  IF wellFormed
        THEN [ok |-> TRUE, exc |-> "", n |-> Rat(sgn * mag, Pow10(fracLen)).n,
              d |-> Rat(sgn * mag, Pow10(fracLen)).d]
        ELSE [ok |-> FALSE, exc |-> "ValueError", n |-> 0, d |-> 1]

\* float(x): the number, or the exception float() raises
ToFloat(x) ==
    CASE IsNumber(x) -> [ok |-> TRUE, exc |-> "", n |-> x.n, d |-> x.d]
      [] x.kind = "str" -> ParseFloat(x.s)
      [] OTHER -> [ok |-> FALSE, exc |-> "TypeError", n |-> 0, d |-> 1]

\* x in (None, 0, 0.0): identity or == against each member
InNoneZero(x) == x.kind = "none" \/ x.kind = "absent" \/ (IsNumber(x) /\ x.n = 0)

\* bool(x) of a channel value; the lists of the telemetry (tyre wear, car
\* damage) have four or five items
Truthy(x) ==
    CASE IsNone(x) -> FALSE
      [] IsNumber(x) -> x.n # 0
      [] x.kind = "str" -> x.s # <<>>
      [] OTHER -> TRUE

\* a == b of two values: numbers by their value whatever their type, strings
\* by their characters, None only with None
PyEq(a, b) ==
    CASE IsNumber(a) /\ IsNumber(b) -> a.n = b.n /\ a.d = b.d
      [] a.kind = "str" /\ b.kind = "str" -> a.s = b.s
      [] IsNone(a) /\ IsNone(b) -> TRUE
      [] OTHER -> a.kind = "list" /\ b.kind = "list"

DigitChar(i) == <<"0", "1", "2", "3", "4", "5", "6", "7", "8", "9">>[i + 1]

\* str(i) of an int i >= 0
RECURSIVE NatStr(_)
NatStr(i) == IF i < 10 THEN <<DigitChar(i)>> ELSE Append(NatStr(i \div 10), DigitChar(i % 10))

IntStr(i) == IF i < 0 THEN <<"-">> \o NatStr(-i) ELSE NatStr(i)

\* the k digits of f, zeros in front
RECURSIVE Padded(_, _)
Padded(f, k) == IF k = 0 THEN <<>> ELSE Append(Padded(f \div 10, k - 1), DigitChar(f % 10))

\* longest fraction str() is computed for
MaxFraction == 6

\* str(x) of a float x = n/d with a finite decimal expansion, 1e-4 <= |x| < 1e16:
\* the shortest decimal that reads back as x, ".0" for a whole number
FloatStr(n, d) ==
    LET k == CHOOSE j \in 0..MaxFraction :
                 /\ (Abs(n) * Pow10(j)) % d = 0
                 /\ \A i \in 0..(j - 1) : (Abs(n) * Pow10(i)) % d # 0
        m == (Abs(n) * Pow10(k)) \div d
        sign == IF n < 0 THEN <<"-">> ELSE <<>>
    IN  sign \o NatStr(m \div Pow10(k)) \o <<".">> \o
        (IF k = 0 THEN <<"0">> ELSE Padded(m % Pow10(k), k))

\* str(x)
StrOf(x) ==
    CASE x.kind = "str" -> x.s
      [] x.kind = "int" -> IntStr(x.n)
      [] x.kind = "float" -> FloatStr(x.n, x.d)
      [] x.kind = "bool" -> IF x.n = 1 THEN <<"T", "r", "u", "e">> ELSE <<"F", "a", "l", "s", "e">>
      [] IsNone(x) -> <<"N", "o", "n", "e">>

\* the characters of the strings of the model, by code point
Alphabet ==
    <<" ", "+", "-", ".", "0", "1", "2", "3", "4", "5", "6", "7", "8", "9",
      "F", "N", "R", "T", "a", "b", "c", "e", "l", "n", "o", "r", "s", "u", "x">>

Ord(c) == CHOOSE i \in 1..Len(Alphabet) : Alphabet[i] = c

\* a < b of two strings: by the first character that differs, a proper
\* prefix first
RECURSIVE StrLt(_, _)
StrLt(a, b) ==
    IF b = <<>> THEN FALSE
    ELSE IF a = <<>> THEN TRUE
    ELSE IF Head(a) # Head(b) THEN Ord(Head(a)) < Ord(Head(b))
    ELSE StrLt(Tail(a), Tail(b))

RAdd(a, b) == Rat(a.n * b.d + b.n * a.d, a.d * b.d)
RSub(a, b) == Rat(a.n * b.d - b.n * a.d, a.d * b.d)
RMul(a, b) == Rat(a.n * b.n, a.d * b.d)
RDiv(a, b) == Rat(a.n * b.d, a.d * b.n)
RLe(a, b) == a.n * b.d <= b.n * a.d
RMin(a, b) == IF RLe(a, b) THEN a ELSE b
RMax(a, b) == IF RLe(a, b) THEN b ELSE a

\* ------------------------------------------------------------------------
\* Configuration of the model
\* ------------------------------------------------------------------------

\* the two actors: the ingestion (1) and the reader that ticks (2)
Ingestion == 1
Reader == 2
Threads == {Ingestion, Reader}
NoThread == 0

\* total number of calls the callers of the store issue in one behaviour
MaxCalls == 3

Keys ==
    {"rpm", "rpm_k", "rpm_norm", "max_rpm", "gear", "speed", "fuel_l",
     "fuel_capacity_l", "fuel_pct"}
NoKey == ""

EmptyDict == [k \in Keys |-> Absent]

\* objects holding a dict: the store's own _data, and one mapping handed
\* out to each thread by snapshot()
StoreObj == 0
NoRef == -1

R(n, d) == Rat(n, d)

\* one entry of the "channels" document of a page (element_list.py:65-68);
\* source = NoKey: the entry has no "source" key, ratio_to = NoKey: no "ratio_to"
Cfg(target, source, ratio_to, scale, offset, clamp, ema) ==
    [target |-> target, source |-> source, ratio_to |-> ratio_to,
     scale |-> scale, offset |-> offset, clamp |-> clamp, ema |-> ema]

NoClamp == <<>>
NoEma == R(0, 1)

VARIABLES
    heap,       \* heap[StoreObj] is ChannelStore._data; heap[t] the dict snapshot() gave t
    lockOwner,  \* thread holding ChannelStore._lock, or NoThread
    lockCount,  \* recursion level of the RLock
    stack,      \* stack[t]: the call frames of thread t, innermost last
    exc,        \* exc[t]: exception in flight in (or raised to the caller of) t
    snapRef,    \* snapRef[t]: the object t got from its last snapshot(), or NoRef
    calls,      \* calls issued so far by the callers of the store
    listeners,  \* slots connected to ChannelStore.changed, in connection order
    ema_prev,   \* ema_prev[target]: smoothing state of the transform setup
    lastBy,     \* history: lastBy[t][k] is the last value t stored under k
    lastWriter, \* history: the thread whose write to k was the most recent
    obs,        \* the channel lookups of the tick in progress, <<key, value>> in order
    cond,       \* the rule document handed to _eval_condition (its spec)
    cycler,     \* the PageCycler: its paths, idx and current, and its last call
    verdict,    \* what _eval_condition(cond, store) returned or raised, once called
    page,       \* the current page: its display nodes and the tick in progress
    gauge,      \* the gauge of the page: its _value and _last_visible
    seen,       \* history: the states _data went through during the tick
    ret,        \* history: the last call that returned in t
    tornSnap    \* history: t's last snapshot copy ran between two writes of an update

vars == <<heap, lockOwner, lockCount, stack, exc, snapRef, calls, listeners,
          ema_prev, obs, gauge, cond, cycler, verdict, page, seen, lastBy, lastWriter,
          ret, tornSnap>>

Data == heap[StoreObj]

\* ------------------------------------------------------------------------
\* Call frames
\* ------------------------------------------------------------------------

Frame(op, pc, items) ==
    [op |-> op, pc |-> pc, items |-> items, i |-> 0, w |-> 0, li |-> 1,
     emitted |-> <<>>, sp |-> 0, v |-> R(0, 1)]

Depth(t) == Len(stack[t])
Top(t) == stack[t][Depth(t)]
Busy(t) == stack[t] # <<>>
At(t, op, pc) == Busy(t) /\ Top(t).op = op /\ Top(t).pc = pc

SetTop(t, f) == [stack EXCEPT ![t][Depth(t)] = f]
Popped(t) == SubSeq(stack[t], 1, Depth(t) - 1)
\* the top frame becomes f and the callee's frame g is entered
Call(t, f, g) == [stack EXCEPT ![t] = Append(Popped(t), f) \o <<g>>]

IsWrite(f) == f.op \in {"set", "update"}

\* on_ui_tick is running (main.py:154-156)
Ticking == \E t \in Threads : Depth(t) > 0 /\ stack[t][1].op = "tick"

NoRet == [op |-> "none", val |-> Absent, expect |-> Absent, complete |-> TRUE]

\* The return of the frame f, the top frame.  The history keeps, of the call:
\* the value returned, the value the history of writes expects, and whether
\* every item of the call has been emitted, in order.
Return(t, f, val, expect) ==
    /\ stack' = [stack EXCEPT ![t] = Popped(t)]
    /\ ret' = [ret EXCEPT ![t] = [op |-> f.op, val |-> val, expect |-> expect,
                                  complete |-> (IsWrite(f) => f.emitted = f.items)]]

\* ------------------------------------------------------------------------
\* threading.RLock (channels.py:11)
\* ------------------------------------------------------------------------

CanAcquire(t) == lockOwner \in {NoThread, t}

Acquire(t) ==
    /\ CanAcquire(t)
    /\ lockOwner' = t
    /\ lockCount' = lockCount + 1

Release(t) ==
    /\ lockCount' = IF lockCount > 0 THEN lockCount - 1 ELSE 0
    /\ lockOwner' = IF lockCount > 1 THEN lockOwner ELSE NoThread

LockUnchanged == UNCHANGED <<lockOwner, lockCount>>

\* variant: the store rebinds _data to a new dict holding the one key
Store_Rebinds(t, k, v) ==
    /\ heap' = [heap EXCEPT ![StoreObj] = [EmptyDict EXCEPT ![k] = v]]
    /\ lastBy' = [lastBy EXCEPT ![t][k] = v]
    /\ lastWriter' = [lastWriter EXCEPT ![k] = t]
    /\ seen' = IF Ticking THEN seen \cup {heap'[StoreObj]} ELSE seen

\* self._data[key] = value, with the history of who wrote what
Store(t, k, v) ==
    /\ heap' = [heap EXCEPT ![StoreObj][k] = v]
    /\ lastBy' = [lastBy EXCEPT ![t][k] = v]
    /\ lastWriter' = [lastWriter EXCEPT ![k] = t]
    /\ seen' = IF Ticking THEN seen \cup {heap'[StoreObj]} ELSE seen

\* ------------------------------------------------------------------------
\* ChannelStore.set (channels.py:13-16)
\* ------------------------------------------------------------------------

\* variant: set keeps the value a key already has
SetStore_KeepsFirst(t) ==
    /\ At(t, "set", "store")
    /\ CanAcquire(t)
    /\ IF Data[Top(t).items[1][1]] = Absent
       THEN Store(t, Top(t).items[1][1], Top(t).items[1][2])
       ELSE /\ heap' = heap
            /\ lastBy' = [lastBy EXCEPT ![t][Top(t).items[1][1]] = Top(t).items[1][2]]
            /\ lastWriter' = [lastWriter EXCEPT ![Top(t).items[1][1]] = t]
            /\ seen' = seen
    /\ stack' = SetTop(t, [Top(t) EXCEPT !.pc = "emit", !.w = 1])
    /\ LockUnchanged
    /\ UNCHANGED <<exc, snapRef, calls, listeners, cond, cycler, verdict, page, obs, gauge, ema_prev, ret, tornSnap>>

\* variant: the lock is still held when changed.emit is reached
SetStore_KeepsLock(t) ==
    /\ At(t, "set", "store")
    /\ Acquire(t)
    /\ Store(t, Top(t).items[1][1], Top(t).items[1][2])
    /\ stack' = SetTop(t, [Top(t) EXCEPT !.pc = "emit", !.w = 1])
    /\ UNCHANGED <<exc, snapRef, calls, listeners, cond, cycler, verdict, page, obs, gauge, ema_prev, ret, tornSnap>>

\* with self._lock: self._data[key] = value
\* The critical section holds one store: it is one step, taken when the lock
\* can be acquired, and the lock is free again when changed.emit is reached.
SetStore(t) ==
    /\ At(t, "set", "store")
    /\ CanAcquire(t)
    /\ Store(t, Top(t).items[1][1], Top(t).items[1][2])
    /\ stack' = SetTop(t, [Top(t) EXCEPT !.pc = "emit", !.w = 1])
    /\ LockUnchanged
    /\ UNCHANGED <<exc, snapRef, calls, listeners, cond, cycler, verdict, page, obs, gauge, ema_prev, ret, tornSnap>>

\* ------------------------------------------------------------------------
\* ChannelStore.update (channels.py:18-23)
\* ------------------------------------------------------------------------

\* with self._lock:
UpdateLock(t) ==
    /\ At(t, "update", "lock")
    /\ Acquire(t)
    /\ stack' = SetTop(t, [Top(t) EXCEPT !.pc = "write"])
    /\ UNCHANGED <<heap, exc, snapRef, calls, listeners, cond, cycler, verdict, page, obs, gauge, ema_prev, lastBy,
                   lastWriter, seen, ret, tornSnap>>

\* self._data.update(mapping): the keys are stored one after the other
UpdateWrite(t) ==
    /\ At(t, "update", "write")
    /\ Top(t).w < Len(Top(t).items)
    /\ Store(t, Top(t).items[Top(t).w + 1][1], Top(t).items[Top(t).w + 1][2])
    /\ stack' = SetTop(t, [Top(t) EXCEPT !.w = @ + 1])
    /\ LockUnchanged
    /\ UNCHANGED <<exc, snapRef, calls, listeners, cond, cycler, verdict, page, obs, gauge, ema_prev, ret, tornSnap>>

\* variant: the emits are done inside the with block
UpdateUnlock_EmitsLocked(t) ==
    /\ At(t, "update", "write")
    /\ Top(t).w = Len(Top(t).items)
    /\ stack' = SetTop(t, [Top(t) EXCEPT !.pc = "emit"])
    /\ UNCHANGED <<heap, lockOwner, lockCount, exc, snapRef, calls, listeners, cond, cycler, verdict, page, obs, gauge,
                   ema_prev, lastBy, lastWriter, seen, ret, tornSnap>>

\* items = list(mapping.items()), then the end of the with block: the lock
\* is released before the first changed.emit
UpdateUnlock(t) ==
    /\ At(t, "update", "write")
    /\ Top(t).w = Len(Top(t).items)
    /\ Release(t)
    /\ stack' = SetTop(t, [Top(t) EXCEPT !.pc = "emit"])
    /\ UNCHANGED <<heap, exc, snapRef, calls, listeners, cond, cycler, verdict, page, obs, gauge, ema_prev, lastBy,
                   lastWriter, seen, ret, tornSnap>>

\* ------------------------------------------------------------------------
\* ChannelStore.get (channels.py:25-27)
\* ------------------------------------------------------------------------

\* dict.get(key, default)
DictGet(m, k, default) == IF m[k] = Absent THEN default ELSE m[k]

\* the value of the most recent write to k in the history, or default
LastWritten(k, default) ==
    IF lastWriter[k] = NoThread THEN default ELSE lastBy[lastWriter[k]][k]

\* with self._lock: return self._data.get(key, default)
GetRead(t) ==
    /\ At(t, "get", "read")
    /\ CanAcquire(t)
    /\ Return(t, Top(t), DictGet(Data, Top(t).items[1][1], Top(t).items[1][2]),
              LastWritten(Top(t).items[1][1], Top(t).items[1][2]))
    /\ LockUnchanged
    /\ UNCHANGED <<heap, exc, snapRef, calls, listeners, cond, cycler, verdict, page, obs, gauge, ema_prev, lastBy,
                   lastWriter, seen, tornSnap>>

\* ------------------------------------------------------------------------
\* ChannelStore.snapshot (channels.py:29-31)
\* ------------------------------------------------------------------------

\* some update() of another thread has stored a part of its keys only
MidUpdate(t) ==
    \E u \in Threads \ {t} : \E j \in 1..Depth(u) :
        /\ stack[u][j].op = "update"
        /\ 0 < stack[u][j].w
        /\ stack[u][j].w < Len(stack[u][j].items)

\* variant: snapshot copies without taking the lock
SnapshotCopy_Unlocked(t) ==
    /\ At(t, "snapshot", "copy")
    /\ heap' = [heap EXCEPT ![t] = heap[StoreObj]]
    /\ snapRef' = [snapRef EXCEPT ![t] = t]
    /\ tornSnap' = [tornSnap EXCEPT ![t] = MidUpdate(t)]
    /\ Return(t, Top(t), PyNone, PyNone)
    /\ LockUnchanged
    /\ UNCHANGED <<exc, calls, listeners, cond, cycler, verdict, page, obs, gauge, ema_prev, lastBy, lastWriter, seen>>

\* variant: snapshot returns _data itself
SnapshotCopy_Aliases(t) ==
    /\ At(t, "snapshot", "copy")
    /\ CanAcquire(t)
    /\ snapRef' = [snapRef EXCEPT ![t] = StoreObj]
    /\ tornSnap' = [tornSnap EXCEPT ![t] = MidUpdate(t)]
    /\ Return(t, Top(t), PyNone, PyNone)
    /\ LockUnchanged
    /\ UNCHANGED <<heap, exc, calls, listeners, cond, cycler, verdict, page, obs, gauge, ema_prev, lastBy, lastWriter, seen>>

\* with self._lock: return dict(self._data)
\* The result is a new dict object with the contents of _data.
SnapshotCopy(t) ==
    /\ At(t, "snapshot", "copy")
    /\ CanAcquire(t)
    /\ heap' = [heap EXCEPT ![t] = heap[StoreObj]]
    /\ snapRef' = [snapRef EXCEPT ![t] = t]
    /\ tornSnap' = [tornSnap EXCEPT ![t] = MidUpdate(t)]
    /\ Return(t, Top(t), PyNone, PyNone)
    /\ LockUnchanged
    /\ UNCHANGED <<exc, calls, listeners, cond, cycler, verdict, page, obs, gauge, ema_prev, lastBy, lastWriter, seen>>

\* ------------------------------------------------------------------------
\* self.changed.emit(k, v) (channels.py:16, 22-23): the connected slots are
\* called one after the other on the emitting thread
\* ------------------------------------------------------------------------

\* cfg.get("source", target) (element_list.py:74, 115)
Src(cfg) == IF cfg.source = NoKey THEN cfg.target ELSE cfg.source

\* variant: on_changed recomputes on a notification of its own target too
Matches_AlsoTarget(cfg, ch_key) ==
    ch_key = Src(cfg) \/ (cfg.ratio_to # NoKey /\ ch_key = cfg.ratio_to) \/ ch_key = cfg.target

\* variant: on_changed tests the source only
Matches_SourceOnly(cfg, ch_key) == ch_key = Src(cfg)

\* the test of on_changed (element_list.py:119)
Matches(cfg, ch_key) ==
    ch_key = Src(cfg) \/ (cfg.ratio_to # NoKey /\ ch_key = cfg.ratio_to)

\* variant: the emit passes the value read back from the store
StartItem_Rereads(f) ==
    IF f.i < Len(f.items)
    THEN [f EXCEPT !.li = 1,
                   !.emitted = Append(@, <<f.items[f.i + 1][1], Data[f.items[f.i + 1][1]]>>)]
    ELSE f

\* the emit of items[i + 1] begins
StartItem(f) ==
    IF f.i < Len(f.items)
    THEN [f EXCEPT !.li = 1, !.emitted = Append(@, f.items[f.i + 1])]
    ELSE f

\* The slots from index li on are called with the item being emitted:
\* on_changed (element_list.py:118-120) returns at once where its test
\* fails and enters recompute where it passes (sp is that slot); after the
\* last slot the next item is emitted, and after the last item the call is
\* done (sp = 0).
RECURSIVE RunSlots(_)
RunSlots(f) ==
    IF f.i = Len(f.items) THEN [f |-> f, sp |-> 0]
    ELSE LET key == f.items[f.i + 1][1]
             m == {j \in f.li..Len(listeners) : Matches(listeners[j], key)}
         IN  IF m # {}
             THEN LET j == CHOOSE x \in m : \A y \in m : x <= y
                  IN  [f |-> [f EXCEPT !.pc = "dispatch", !.li = j + 1], sp |-> j]
             ELSE RunSlots(StartItem([f EXCEPT !.i = @ + 1]))

\* the frame f goes on emitting: a slot enters recompute, or the call returns
Emit(t, f) ==
    LET r == RunSlots(f)
    IN  IF r.sp # 0
        THEN /\ stack' = Call(t, r.f, [Frame("recompute", "src", <<>>) EXCEPT !.sp = r.sp])
             /\ UNCHANGED ret
        ELSE Return(t, r.f, PyNone, PyNone)

\* variant: a set() called by a listener notifies nobody
EmitNext_OuterCallOnly(t) ==
    /\ Busy(t) /\ IsWrite(Top(t)) /\ Top(t).pc = "emit"
    /\ IF Depth(t) > 1
       THEN Return(t, [Top(t) EXCEPT !.emitted = Top(t).items], PyNone, PyNone)
       ELSE Emit(t, StartItem(Top(t)))
    /\ LockUnchanged
    /\ UNCHANGED <<heap, exc, snapRef, calls, listeners, cond, cycler, verdict, page, obs, gauge, ema_prev, lastBy,
                   lastWriter, seen, tornSnap>>

\* for k, v in items: self.changed.emit(k, v), from the first item
EmitNext(t) ==
    /\ Busy(t) /\ IsWrite(Top(t)) /\ Top(t).pc = "emit"
    /\ Emit(t, StartItem(Top(t)))
    /\ LockUnchanged
    /\ UNCHANGED <<heap, exc, snapRef, calls, listeners, cond, cycler, verdict, page, obs, gauge, ema_prev, lastBy,
                   lastWriter, seen, tornSnap>>

\* a slot has returned: the emit goes on with the slots and items after it
Dispatch(t) ==
    /\ Busy(t) /\ IsWrite(Top(t)) /\ Top(t).pc = "dispatch"
    /\ exc[t] = ""
    /\ Emit(t, Top(t))
    /\ LockUnchanged
    /\ UNCHANGED <<heap, exc, snapRef, calls, listeners, cond, cycler, verdict, page, obs, gauge, ema_prev, lastBy,
                   lastWriter, seen, tornSnap>>

\* ------------------------------------------------------------------------
\* recompute (element_list.py:73-111)
\* ------------------------------------------------------------------------

\* v = float(cfg.get("offset", 0.0)) + v * float(cfg.get("scale", 1.0))
Affine(cfg, v) == RAdd(cfg.offset, RMul(v, cfg.scale))

\* variant: only the lower bound is applied
Clamp_LowerOnly(cfg, v) ==
    IF Len(cfg.clamp) = 2 THEN RMax(cfg.clamp[1], v) ELSE v

\* v = max(lo, min(hi, v)) when clamp is a list of two
Clamp(cfg, v) ==
    IF Len(cfg.clamp) = 2 THEN RMax(cfg.clamp[1], RMin(cfg.clamp[2], v)) ELSE v

\* isinstance(alpha, (int, float)) and 0.0 < alpha < 1.0
HasEma(cfg) == 0 < cfg.ema.n /\ cfg.ema.n < cfg.ema.d

\* variant: the first sample is blended with 0.0
Smooth_FromZero(cfg, prev, v) ==
    IF HasEma(cfg)
    THEN IF prev # Absent
         THEN RAdd([n |-> prev.n, d |-> prev.d], RMul(cfg.ema, RSub(v, [n |-> prev.n, d |-> prev.d])))
         ELSE RMul(cfg.ema, v)
    ELSE v

\* the smoothing step: the value stored, given the smoothing state prev
Smooth(cfg, prev, v) ==
    IF HasEma(cfg) /\ prev # Absent
    THEN RAdd([n |-> prev.n, d |-> prev.d], RMul(cfg.ema, RSub(v, [n |-> prev.n, d |-> prev.d])))
    ELSE v

\* variant: the clamp is applied to the smoothed value
RecomputeWrite_ClampsLast(t, cfg, v0) ==
    LET v == Clamp(cfg, Smooth(cfg, ema_prev[cfg.target], Affine(cfg, v0)))
    IN  /\ ema_prev' = IF HasEma(cfg)
                       THEN [ema_prev EXCEPT ![cfg.target] = PyFloat(v.n, v.d)]
                       ELSE ema_prev
        /\ stack' = Call(t, [Top(t) EXCEPT !.pc = "set", !.v = v],
                         Frame("set", "store", << <<cfg.target, PyFloat(v.n, v.d)>> >>))
        /\ UNCHANGED <<exc, ret>>

\* lines 92-111: affine, clamp, smoothing, then channels.set(target, v)
RecomputeWrite(t, cfg, v0) ==
    LET v == Smooth(cfg, ema_prev[cfg.target], Clamp(cfg, Affine(cfg, v0)))
    IN  /\ ema_prev' = IF HasEma(cfg)
                       THEN [ema_prev EXCEPT ![cfg.target] = PyFloat(v.n, v.d)]
                       ELSE ema_prev
        /\ stack' = Call(t, [Top(t) EXCEPT !.pc = "set", !.v = v],
                         Frame("set", "store", << <<cfg.target, PyFloat(v.n, v.d)>> >>))
        /\ UNCHANGED <<exc, ret>>

\* return (lines 77, 81, 90, and after line 111)
RecomputeAbort(t) ==
    /\ stack' = [stack EXCEPT ![t] = Popped(t)]
    /\ UNCHANGED <<exc, ret, ema_prev>>

\* an exception leaves recompute and on_changed: neither has a handler for it
RecomputeRaise(t, e) ==
    /\ stack' = [stack EXCEPT ![t] = Popped(t)]
    /\ exc' = [exc EXCEPT ![t] = e]
    /\ UNCHANGED <<ret, ema_prev>>

\* variant: a missing source counts as usable
SourceUsable_NoneIsUsable(v) == IsNone(v) \/ ToFloat(v).ok

\* the source value can be used: not None, and float(v) does not raise
SourceUsable(v) == ~IsNone(v) /\ ToFloat(v).ok

\* variant: a recompute of a spec that is already being recomputed returns
RecomputeSrc_DetectsCycle(t) ==
    /\ At(t, "recompute", "src")
    /\ CanAcquire(t)
    /\ LET cfg == listeners[Top(t).sp]
           v == DictGet(Data, Src(cfg), PyNone)
           f == ToFloat(v)
       IN  IF ~SourceUsable(v)
              \/ \E j \in 1..(Depth(t) - 1) :
                    stack[t][j].op = "recompute" /\ stack[t][j].sp = Top(t).sp
           THEN RecomputeAbort(t)
           ELSE IF cfg.ratio_to # NoKey
           THEN /\ stack' = SetTop(t, [Top(t) EXCEPT !.pc = "ratio",
                                                     !.v = [n |-> f.n, d |-> f.d]])
                /\ UNCHANGED <<exc, ret, ema_prev>>
           ELSE RecomputeWrite(t, cfg, [n |-> f.n, d |-> f.d])
    /\ LockUnchanged
    /\ UNCHANGED <<heap, snapRef, calls, listeners, cond, cycler, verdict, page, obs, gauge, lastBy, lastWriter, seen, tornSnap>>

\* lines 74-85: v = channels.get(src), the checks of v, and the branch on ratio_to
RecomputeSrc(t) ==
    /\ At(t, "recompute", "src")
    /\ CanAcquire(t)
    /\ LET cfg == listeners[Top(t).sp]
           v == DictGet(Data, Src(cfg), PyNone)
           f == ToFloat(v)
       IN  IF ~SourceUsable(v)
           THEN RecomputeAbort(t)
           ELSE IF cfg.ratio_to # NoKey
           THEN /\ stack' = SetTop(t, [Top(t) EXCEPT !.pc = "ratio",
                                                     !.v = [n |-> f.n, d |-> f.d]])
                /\ UNCHANGED <<exc, ret, ema_prev>>
           ELSE RecomputeWrite(t, cfg, [n |-> f.n, d |-> f.d])
    /\ LockUnchanged
    /\ UNCHANGED <<heap, snapRef, calls, listeners, cond, cycler, verdict, page, obs, gauge, lastBy, lastWriter, seen, tornSnap>>

\* the division cannot be done yet: not (denom not in (None, 0, 0.0))
DenomBlocks(denom) == InNoneZero(denom)

\* variant: a zero denominator gives 0.0, as the ingestion computes fuel_pct
\* (main.py:201)
RecomputeRatio_ZeroGivesZero(t) ==
    /\ At(t, "recompute", "ratio")
    /\ CanAcquire(t)
    /\ LET cfg == listeners[Top(t).sp]
           denom == DictGet(Data, cfg.ratio_to, PyNone)
           f == ToFloat(denom)
       IN  IF IsNone(denom) THEN RecomputeAbort(t)
           ELSE IF DenomBlocks(denom) THEN RecomputeWrite(t, cfg, R(0, 1))
           ELSE IF ~f.ok THEN RecomputeRaise(t, f.exc)
           ELSE IF f.n = 0 THEN RecomputeRaise(t, "ZeroDivisionError")
           ELSE RecomputeWrite(t, cfg, RDiv(Top(t).v, [n |-> f.n, d |-> f.d]))
    /\ LockUnchanged
    /\ UNCHANGED <<heap, snapRef, calls, listeners, cond, cycler, verdict, page, obs, gauge, lastBy, lastWriter, seen, tornSnap>>

\* lines 86-90: denom = channels.get(ratio_key), the test of denom, v / float(denom)
RecomputeRatio(t) ==
    /\ At(t, "recompute", "ratio")
    /\ CanAcquire(t)
    /\ LET cfg == listeners[Top(t).sp]
           denom == DictGet(Data, cfg.ratio_to, PyNone)
           f == ToFloat(denom)
       IN  IF DenomBlocks(denom) THEN RecomputeAbort(t)
           ELSE IF ~f.ok THEN RecomputeRaise(t, f.exc)
           ELSE IF f.n = 0 THEN RecomputeRaise(t, "ZeroDivisionError")
           ELSE RecomputeWrite(t, cfg, RDiv(Top(t).v, [n |-> f.n, d |-> f.d]))
    /\ LockUnchanged
    /\ UNCHANGED <<heap, snapRef, calls, listeners, cond, cycler, verdict, page, obs, gauge, lastBy, lastWriter, seen, tornSnap>>

\* channels.set(target, v) has returned: recompute returns
RecomputeReturn(t) ==
    /\ At(t, "recompute", "set")
    /\ exc[t] = ""
    /\ RecomputeAbort(t)
    /\ LockUnchanged
    /\ UNCHANGED <<heap, snapRef, calls, listeners, cond, cycler, verdict, page, obs, gauge, lastBy, lastWriter, seen, tornSnap>>

\* An exception raised by a slot reaches the signal dispatch of Qt, which is
\* not code of this repository: it is either reported there, the remaining
\* slots being called, or it propagates out of emit, and so out of set/update
\* and out of a recompute that called set (line 111 has no handler).
SignalError(t) ==
    /\ Busy(t) /\ exc[t] # ""
    /\ \/ /\ IsWrite(Top(t)) /\ Top(t).pc = "dispatch"
          /\ exc' = [exc EXCEPT ![t] = ""]
          /\ UNCHANGED stack
       \/ /\ stack' = [stack EXCEPT ![t] = Popped(t)]
          /\ UNCHANGED exc
    /\ LockUnchanged
    /\ UNCHANGED <<heap, snapRef, calls, listeners, cond, cycler, verdict, page, obs, gauge, ema_prev, lastBy,
                   lastWriter, seen, ret, tornSnap>>

\* the steps of a thread inside the store and the transform of a page
\* without ratio_to
StoreStep(t) ==
    \/ SetStore(t)
    \/ UpdateLock(t) \/ UpdateWrite(t) \/ UpdateUnlock(t)
    \/ GetRead(t)
    \/ SnapshotCopy(t)
    \/ EmitNext(t) \/ Dispatch(t)
    \/ RecomputeSrc(t) \/ RecomputeReturn(t)

\* ------------------------------------------------------------------------
\* The callers of the store: the ingestion (main.py:243) and the readers
\* ------------------------------------------------------------------------

\* a caller enters a method of the store
Enter(t, f) ==
    /\ ~Busy(t)
    /\ calls < MaxCalls
    /\ calls' = calls + 1
    /\ stack' = [stack EXCEPT ![t] = <<f>>]
    /\ exc' = [exc EXCEPT ![t] = ""]
    /\ LockUnchanged
    /\ UNCHANGED <<heap, snapRef, listeners, cond, cycler, verdict, page, obs, gauge, ema_prev, lastBy, lastWriter, seen,
                   ret, tornSnap>>

CallSet(t, k, v) == Enter(t, Frame("set", "store", << <<k, v>> >>))
CallUpdate(t, items) == Enter(t, Frame("update", "lock", items))
CallGet(t, k, default) == Enter(t, Frame("get", "read", << <<k, default>> >>))
CallSnapshot(t) == Enter(t, Frame("snapshot", "copy", <<>>))

\* the caller stores into the mapping snapshot() returned to it
MutateSnapshot(t, k, v) ==
    /\ ~Busy(t)
    /\ snapRef[t] # NoRef
    /\ calls < MaxCalls
    /\ calls' = calls + 1
    /\ heap' = [heap EXCEPT ![snapRef[t]][k] = v]
    /\ LockUnchanged
    /\ UNCHANGED <<stack, exc, snapRef, listeners, cond, cycler, verdict, page, obs, gauge, ema_prev, lastBy,
                   lastWriter, seen, ret, tornSnap>>

\* ------------------------------------------------------------------------
\* Specification of the store under two concurrent callers.  The page in
\* use derives rpm_k from rpm (the docstring's example, element_list.py:66).
\* ------------------------------------------------------------------------

RpmK == Cfg("rpm_k", "rpm", NoKey, R(1, 1000), R(0, 1), <<R(0, 1), R(9, 1)>>, NoEma)

StoreKeys == {"rpm", "gear"}
ValsOf(k) == IF k = "rpm" THEN {PyInt(3000), PyInt(9500)} ELSE {PyInt(1), PyInt(2)}

\* the mappings the ingestion passes to update(), as item lists in insertion order
StoreMappings ==
    {<< <<k1, v1>>, <<k2, v2>> >> :
        k1 \in StoreKeys, k2 \in StoreKeys, v1 \in {PyInt(2), PyInt(9500)},
        v2 \in {PyInt(2), PyInt(9500)}}

\* A rule of the "visible_when" document (element.py:118-130), a dict: has
\* is the set of its keys, the other fields are the values of the keys it
\* has.  kind names the first of "all", "any", "not", "exists" it has, or
\* "leaf" when it has none; short lists its shorthand operators <<op, literal>>.
Leaf(ch) ==
    [kind |-> "leaf", has |-> {"ch"}, ch |-> ch, ratio_to |-> NoKey,
     scale |-> Absent, offset |-> Absent, between |-> <<>>, members |-> <<>>,
     op |-> "", value |-> Absent, short |-> <<>>, rules |-> <<>>]

NoRule == [Leaf(NoKey) EXCEPT !.kind = "", !.has = {}]

RuleAll(rules) == [NoRule EXCEPT !.kind = "all", !.has = {"all"}, !.rules = rules]
RuleAny(rules) == [NoRule EXCEPT !.kind = "any", !.has = {"any"}, !.rules = rules]
RuleNot(rule) == [NoRule EXCEPT !.kind = "not", !.has = {"not"}, !.rules = <<rule>>]
RuleExists(ch) == [NoRule EXCEPT !.kind = "exists", !.has = {"exists"}, !.ch = ch]
\* {"ch": ch, op: value}
RuleCompare(ch, op, value) ==
    [Leaf(ch) EXCEPT !.has = @ \cup {op}, !.short = <<<<op, value>>>>]
\* {"ch": ch, "op": op, "value": value}
RuleOp(ch, op, value) ==
    [Leaf(ch) EXCEPT !.has = @ \cup {"op", "value"}, !.op = op, !.value = value]
\* {"ch": ch, "between": [lo, hi]}
RuleBetween(ch, lo, hi) == [Leaf(ch) EXCEPT !.has = @ \cup {"between"}, !.between = <<lo, hi>>]
\* {"ch": ch, "in": members}
RuleIn(ch, members) == [Leaf(ch) EXCEPT !.has = @ \cup {"in"}, !.members = members]
\* the rule with one more key
WithRatio(rule, key) == [rule EXCEPT !.has = @ \cup {"ratio_to"}, !.ratio_to = key]
WithScale(rule, x) == [rule EXCEPT !.has = @ \cup {"scale"}, !.scale = x]
WithOffset(rule, x) == [rule EXCEPT !.has = @ \cup {"offset"}, !.offset = x]

\* no page is shown (PageCycler.current is None)
NoPage == [nodes |-> <<>>, pos |-> 0, phase |-> "", ticks |-> 0, raised |-> ""]

\* a page file of the pages directory is named by its rank in the natural
\* order of the file names (main.py:44-47); current is the path the Page
\* shown was built from, NoPath for None
NoPath == 0

\* PageCycler(root, []) (page_controller.py:4-10); the history fields: op is
\* the last method called, was the path of the page shown and at the idx
\* before that call, raised the exception that left it
NoCycler ==
    [paths |-> <<>>, idx |-> 0, current |-> NoPath, op |-> "", was |-> NoPath,
     at |-> 0, raised |-> ""]

\* _eval_condition has not been called
NoVerdict == [done |-> FALSE, val |-> FALSE, exc |-> ""]

InitCommon ==
    /\ heap = [o \in {StoreObj} \cup Threads |-> EmptyDict]
    /\ lockOwner = NoThread
    /\ lockCount = 0
    /\ stack = [t \in Threads |-> <<>>]
    /\ exc = [t \in Threads |-> ""]
    /\ snapRef = [t \in Threads |-> NoRef]
    /\ calls = 0
    /\ ema_prev = EmptyDict
    /\ lastBy = [t \in Threads |-> EmptyDict]
    /\ lastWriter = [k \in Keys |-> NoThread]
    /\ obs = <<>>
    /\ gauge = [value |-> R(0, 1), last_visible |-> PyNone]
    /\ cond = NoRule
    /\ cycler = NoCycler
    /\ verdict = NoVerdict
    /\ page = NoPage
    /\ seen = {}
    /\ ret = [t \in Threads |-> NoRet]
    /\ tornSnap = [t \in Threads |-> FALSE]

Init ==
    /\ InitCommon
    /\ listeners = <<RpmK>>

\* what each actor calls: the ingestion writes; the reader reads, keeps a
\* snapshot, and writes too
UpdatesOf(t) ==
    IF t = Ingestion
    THEN {x \in StoreMappings : x[1][1] # x[2][1] /\ x[1][2] \in ValsOf(x[1][1])
                                 /\ x[2][2] \in ValsOf(x[2][1])}
    ELSE {}
ReadsOf(t) == IF t = Reader THEN {"gear", "rpm_k"} ELSE {}

Caller(t) ==
    \/ \E k \in StoreKeys : \E v \in ValsOf(k) : CallSet(t, k, v)
    \/ \E m \in UpdatesOf(t) : CallUpdate(t, m)
    \/ \E k \in ReadsOf(t) : CallGet(t, k, PyNone)
    \/ \E k \in ReadsOf(t) \ {"rpm_k"} : CallSnapshot(t)
    \/ \E k \in ReadsOf(t) \ {"rpm_k"} : \E v \in ValsOf(k) : MutateSnapshot(t, k, v)

Next == \E t \in Threads : Caller(t) \/ StoreStep(t)

Spec == Init /\ [][Next]_vars

\* ------------------------------------------------------------------------
\* Specification of the transform of a page with a ratio: fuel_pct is
\* derived from fuel_l and fuel_capacity_l (the docstring's example,
\* element_list.py:67).  One caller writes the two channels with the values
\* a datagram can carry (main.py:172-173, 243): numbers, booleans, null,
\* strings and lists.
\* ------------------------------------------------------------------------

FuelPct ==
    Cfg("fuel_pct", "fuel_l", "fuel_capacity_l", R(1, 1), R(0, 1),
        <<R(0, 1), R(1, 1)>>, R(1, 5))

FuelValues == {PyInt(15), PyStr(<<"1", "5">>), PyStr(<<"a", "b", "c">>), PyNone}
CapacityValues ==
    {PyInt(60), PyInt(0), PyFloat(0, 1), PyBool(FALSE), PyBool(TRUE),
     PyStr(<<"0">>), PyStr(<<"a", "b", "c">>), PyNone, PyList}

\* the mappings of the update() calls
FuelMappings ==
    {<< <<"fuel_l", PyInt(15)>>, <<"fuel_capacity_l", c>> >> :
        c \in {PyInt(60), PyInt(0), PyStr(<<"a", "b", "c">>)}}

\* the startup pass (element_list.py:127) finds the store empty and returns:
\* nothing is stored when the setup is done
InitTransform ==
    /\ InitCommon
    /\ listeners = <<FuelPct>>

TransformCaller(t) ==
    \/ \E v \in FuelValues : CallSet(t, "fuel_l", v)
    \/ \E v \in CapacityValues : CallSet(t, "fuel_capacity_l", v)
    \/ \E m \in FuelMappings : CallUpdate(t, m)

TransformStep(t) ==
    \/ SetStore(t)
    \/ UpdateLock(t) \/ UpdateWrite(t) \/ UpdateUnlock(t)
    \/ EmitNext(t) \/ Dispatch(t)
    \/ RecomputeSrc(t) \/ RecomputeRatio(t) \/ RecomputeReturn(t)
    \/ SignalError(t)

NextTransform == TransformCaller(Ingestion) \/ TransformStep(Ingestion)

SpecTransform == InitTransform /\ [][NextTransform]_vars

\* ------------------------------------------------------------------------
\* Specification of the pipeline of one transform: a page whose fuel_pct
\* has every step of recompute configured (ratio, scale, offset, clamp and
\* ema), under the same caller.
\* ------------------------------------------------------------------------

FuelScaled ==
    Cfg("fuel_pct", "fuel_l", "fuel_capacity_l", R(2, 1), R(1, 2),
        <<R(0, 1), R(2, 1)>>, R(1, 2))

InitPipeline ==
    /\ InitCommon
    /\ listeners = <<FuelScaled>>

SpecPipeline == InitPipeline /\ [][NextTransform]_vars

\* ------------------------------------------------------------------------
\* The transform setup of a page load (element_list.py:113-127): for each
\* entry of the "channels" document, in the order of the document, the
\* listener is connected and then recompute is called once, directly.
\* ------------------------------------------------------------------------

\* parse() calls _setup_channel_transforms(data.get("channels", {}))
\* (element_list.py:49); a page is loaded once here
LoadPage(t, doc) ==
    /\ ~Busy(t)
    /\ listeners = <<>>
    /\ calls < MaxCalls
    /\ calls' = calls + 1
    /\ stack' = [stack EXCEPT ![t] = <<Frame("setup", "connect", doc)>>]
    /\ exc' = [exc EXCEPT ![t] = ""]
    /\ LockUnchanged
    /\ UNCHANGED <<heap, snapRef, listeners, cond, cycler, verdict, page, ema_prev, obs, gauge, seen, lastBy,
                   lastWriter, ret, tornSnap>>

\* one round of the loop: channels.changed.connect(on_changed), then
\* recompute(target, cfg)
SetupConnect(t) ==
    /\ At(t, "setup", "connect")
    /\ exc[t] = ""
    /\ Top(t).i < Len(Top(t).items)
    /\ listeners' = Append(listeners, Top(t).items[Top(t).i + 1])
    /\ stack' = Call(t, [Top(t) EXCEPT !.i = @ + 1],
                     [Frame("recompute", "src", <<>>) EXCEPT !.sp = Len(listeners) + 1])
    /\ LockUnchanged
    /\ UNCHANGED <<heap, exc, snapRef, calls, ema_prev, obs, gauge, cond, cycler, verdict, page,
                   seen, lastBy, lastWriter, ret, tornSnap>>

\* the loop is over: the setup returns
SetupReturn(t) ==
    /\ At(t, "setup", "connect")
    /\ exc[t] = ""
    /\ Top(t).i = Len(Top(t).items)
    /\ Return(t, Top(t), PyNone, PyNone)
    /\ LockUnchanged
    /\ UNCHANGED <<heap, exc, snapRef, calls, listeners, cond, cycler, verdict, page, obs, gauge, ema_prev, seen,
                   lastBy, lastWriter, tornSnap>>

\* ------------------------------------------------------------------------
\* Specification of a page load with chained transforms: rpm_k is derived
\* from rpm and rpm_norm from rpm_k.  Before and after the load the caller
\* writes rpm, and rpm_k as the ingestion does (main.py:199).
\* ------------------------------------------------------------------------

RpmNorm == Cfg("rpm_norm", "rpm_k", NoKey, R(1, 9), R(0, 1), <<R(0, 1), R(1, 1)>>, NoEma)
RpmNormSmooth == Cfg("rpm_norm", "rpm_k", NoKey, R(1, 9), R(0, 1), <<R(0, 1), R(1, 1)>>, R(1, 2))

\* the "channels" documents, their entries in the order of the document
ChainDocuments ==
    {<<RpmK, RpmNorm>>, <<RpmNorm, RpmK>>,
     <<RpmK, RpmNormSmooth>>, <<RpmNormSmooth, RpmK>>}

InitLoad ==
    /\ InitCommon
    /\ listeners = <<>>

LoadCaller(t) ==
    \/ \E v \in {PyInt(8000), PyInt(4500)} : CallSet(t, "rpm", v)
    \/ \E v \in {PyInt(3)} : CallSet(t, "rpm_k", v)
    \/ \E doc \in ChainDocuments : LoadPage(t, doc)

LoadStep(t) ==
    \/ SetupConnect(t) \/ SetupReturn(t)
    \/ SetStore(t)
    \/ EmitNext(t) \/ Dispatch(t)
    \/ RecomputeSrc(t) \/ RecomputeReturn(t)

NextLoad == LoadCaller(Ingestion) \/ LoadStep(Ingestion)

SpecLoad == InitLoad /\ [][NextLoad]_vars

\* ------------------------------------------------------------------------
\* Specification of pages loaded one after the other: PageCycler._show_index
\* (page_controller.py:12-27) builds a new Page for every show, reload or
\* switch, whose ElementList runs the transform setup again; the old Page is
\* left to deleteLater().  on_changed is a closure connected to the
\* changed signal of the global store (element_list.py:118-122) and nothing
\* disconnects it.  The specs have no ema here: each setup has an ema_prev
\* dict of its own (line 71).
\* ------------------------------------------------------------------------

ReloadDocuments == {<<RpmK>>, <<RpmK, RpmNorm>>}

\* a page is shown after another one, or the same one again
ShowPage(t, doc) ==
    /\ ~Busy(t)
    /\ listeners # <<>>
    /\ calls < MaxCalls
    /\ calls' = calls + 1
    /\ stack' = [stack EXCEPT ![t] = <<Frame("setup", "connect", doc)>>]
    /\ exc' = [exc EXCEPT ![t] = ""]
    /\ LockUnchanged
    /\ UNCHANGED <<heap, snapRef, listeners, cond, cycler, verdict, page, ema_prev, obs, gauge, seen, lastBy,
                   lastWriter, ret, tornSnap>>

InitReload ==
    /\ InitCommon
    /\ listeners = <<>>

ReloadCaller(t) ==
    \/ \E v \in {PyInt(8000), PyInt(4500)} : CallSet(t, "rpm", v)
    \/ \E doc \in ReloadDocuments : LoadPage(t, doc)
    \/ \E doc \in ReloadDocuments : ShowPage(t, doc)

NextReload == ReloadCaller(Ingestion) \/ LoadStep(Ingestion)

SpecReload == InitReload /\ [][NextReload]_vars

\* ------------------------------------------------------------------------
\* PageCycler (controller/page_controller.py).  Its methods run on the Qt
\* event loop, one call at a time; Page(path) is taken to build the page.
\* The lists handed to it are what discover_pages() returns: the files of
\* the directory, in their natural order.
\* ------------------------------------------------------------------------

\* page files the directory holds at most
MaxPaths == 4

RECURSIVE Ascending(_)
Ascending(S) ==
    IF S = {} THEN <<>>
    ELSE LET x == CHOOSE y \in S : \A z \in S : y <= z
         IN  <<x>> \o Ascending(S \ {x})

PathLists == {Ascending(S) : S \in SUBSET (1..MaxPaths)}

\* list.index(x), 0-based, for x in the list
IndexOf(seq, x) ==
    CHOOSE i \in 0..(Len(seq) - 1) :
        seq[i + 1] = x /\ \A j \in 0..(i - 1) : seq[j + 1] # x

\* _show_index(i), lines 12-27
ShowIndex(c, i) ==
    IF c.paths = <<>> THEN c
    ELSE [c EXCEPT !.current = c.paths[(i % Len(c.paths)) + 1],
                   !.idx = i % Len(c.paths)]

\* __init__, lines 4-10
Constructed(paths) == ShowIndex([NoCycler EXCEPT !.paths = paths], 0)

\* set_pages(new_paths), lines 39-49: the paths are replaced (line 40), then
\* cur = self.current_path() reads self.paths[self.idx] (lines 46, 33) and
\* raises IndexError when idx is past the end of the new list
set_pages(c, new_paths) ==
    IF new_paths = <<>>
    THEN [c EXCEPT !.paths = new_paths, !.current = NoPath, !.idx = 0]
    ELSE IF c.idx >= Len(new_paths)
    THEN [c EXCEPT !.paths = new_paths, !.raised = "IndexError"]
    ELSE LET cur == new_paths[c.idx + 1]
             i == IF \E x \in 1..Len(new_paths) : new_paths[x] = cur
                  THEN IndexOf(new_paths, cur) ELSE 0
         IN  ShowIndex([c EXCEPT !.paths = new_paths, !.idx = i], i)

\* the call op is made on the cycler, which becomes c
CyclerCall(op, c) ==
    /\ cycler' = [c EXCEPT !.op = op, !.was = cycler.current, !.at = cycler.idx]
    /\ UNCHANGED <<heap, lockOwner, lockCount, stack, exc, snapRef, calls, listeners,
                   ema_prev, obs, gauge, cond, verdict, page, seen, lastBy, lastWriter,
                   ret, tornSnap>>

Entering == [cycler EXCEPT !.raised = ""]

\* next_page(), lines 29-30
NextPage == CyclerCall("next_page", ShowIndex(Entering, cycler.idx + 1))

\* reload_current(), lines 35-37
ReloadCurrent == CyclerCall("reload_current", ShowIndex(Entering, cycler.idx))

SetPages == \E new_paths \in PathLists : CyclerCall("set_pages", set_pages(Entering, new_paths))

\* PageCycler(root, page_paths) (main.py:79), on the pages discovered
InitCycler ==
    /\ \E paths \in PathLists : cycler = Constructed(paths)
    /\ heap = [o \in {StoreObj} \cup Threads |-> EmptyDict]
    /\ lockOwner = NoThread
    /\ lockCount = 0
    /\ stack = [t \in Threads |-> <<>>]
    /\ exc = [t \in Threads |-> ""]
    /\ snapRef = [t \in Threads |-> NoRef]
    /\ calls = 0
    /\ listeners = <<>>
    /\ ema_prev = EmptyDict
    /\ lastBy = [t \in Threads |-> EmptyDict]
    /\ lastWriter = [k \in Keys |-> NoThread]
    /\ obs = <<>>
    /\ gauge = [value |-> R(0, 1), last_visible |-> PyNone]
    /\ cond = NoRule
    /\ verdict = NoVerdict
    /\ page = NoPage
    /\ seen = {}
    /\ ret = [t \in Threads |-> NoRet]
    /\ tornSnap = [t \in Threads |-> FALSE]

NextCycler == NextPage \/ ReloadCurrent \/ SetPages

SpecCycler == InitCycler /\ [][NextCycler]_vars

\* ------------------------------------------------------------------------
\* Specification of a page whose two specs form a cycle: rpm_k is derived
\* from rpm_norm and rpm_norm from rpm_k.  The setup found the store empty.
\* The calls nest without end; the model follows them down to MaxDepth
\* frames.
\* ------------------------------------------------------------------------

MaxDepth == 61

CycleA == Cfg("rpm_k", "rpm_norm", NoKey, R(1, 2), R(0, 1), NoClamp, NoEma)
CycleB == Cfg("rpm_norm", "rpm_k", NoKey, R(1, 1), R(1, 1), NoClamp, NoEma)

InitCycle ==
    /\ InitCommon
    /\ listeners = <<CycleA, CycleB>>

CycleCaller(t) ==
    \E k \in {"rpm_k", "rpm_norm"} : \E v \in {PyInt(8), PyInt(0)} : CallSet(t, k, v)

CycleStep(t) ==
    \/ Depth(t) < MaxDepth /\ SetStore(t)
    \/ Depth(t) < MaxDepth /\ EmitNext(t)
    \/ Depth(t) < MaxDepth /\ RecomputeSrc(t)

NextCycle == CycleCaller(Ingestion) \/ CycleStep(Ingestion)

SpecCycle == InitCycle /\ [][NextCycle]_vars

\* ------------------------------------------------------------------------
\* Specification of the startup pass over a store that already holds the
\* channels: the caller writes fuel_pct and rpm, then loads a page.  One
\* page clamps fuel_pct in place: its spec has no "source", so that
\* cfg.get("source", target) is the target itself (element_list.py:75,
\* 115).  The other page derives rpm_k from rpm.  The calls of the first
\* page nest without end; the model follows them down to MaxDepth frames.
\* ------------------------------------------------------------------------

FuelInPlace == Cfg("fuel_pct", NoKey, NoKey, R(1, 1), R(0, 1), <<R(0, 1), R(1, 1)>>, NoEma)

StartupDocuments == {<<FuelInPlace>>, <<RpmK>>}

InitStartup ==
    /\ InitCommon
    /\ listeners = <<>>

StartupCaller(t) ==
    \/ \E v \in {PyInt(2), PyFloat(1, 2)} : CallSet(t, "fuel_pct", v)
    \/ \E v \in {PyInt(8000), PyInt(4500)} : CallSet(t, "rpm", v)
    \/ \E doc \in StartupDocuments : LoadPage(t, doc)

StartupStep(t) ==
    \/ Depth(t) < MaxDepth /\ SetupConnect(t)
    \/ SetupReturn(t)
    \/ Depth(t) < MaxDepth /\ SetStore(t)
    \/ Depth(t) < MaxDepth /\ EmitNext(t)
    \/ Dispatch(t)
    \/ Depth(t) < MaxDepth /\ RecomputeSrc(t)
    \/ RecomputeReturn(t)

NextStartup == StartupCaller(Ingestion) \/ StartupStep(Ingestion)

SpecStartup == InitStartup /\ [][NextStartup]_vars

\* ------------------------------------------------------------------------
\* Specification of the notifications of a page with three specs: fuel_pct
\* from fuel_l and fuel_capacity_l, rpm_k from rpm, and a smoothed rpm_norm
\* from rpm_k.  The startup pass found the store empty.  The caller writes
\* the sources, and gear, which no spec listens to, one key at a time or
\* several in one update().
\* ------------------------------------------------------------------------

NotifyMappings ==
    {<< <<"fuel_l", PyInt(15)>>, <<"fuel_capacity_l", PyInt(60)>> >>,
     << <<"gear", PyInt(2)>>, <<"rpm", PyInt(8000)>> >>,
     << <<"fuel_capacity_l", PyInt(30)>>, <<"gear", PyInt(1)>>, <<"rpm", PyInt(4500)>> >>}

InitNotify ==
    /\ InitCommon
    /\ listeners = <<FuelPct, RpmK, RpmNormSmooth>>

NotifyCaller(t) ==
    \/ \E v \in {PyInt(15)} : CallSet(t, "fuel_l", v)
    \/ \E v \in {PyInt(60), PyInt(0)} : CallSet(t, "fuel_capacity_l", v)
    \/ \E v \in {PyInt(8000), PyInt(4500)} : CallSet(t, "rpm", v)
    \/ \E v \in {PyInt(1)} : CallSet(t, "gear", v)
    \/ \E mapping \in NotifyMappings : CallUpdate(t, mapping)

NotifyStep(t) ==
    \/ SetStore(t)
    \/ UpdateLock(t) \/ UpdateWrite(t) \/ UpdateUnlock(t)
    \/ EmitNext(t) \/ Dispatch(t)
    \/ RecomputeSrc(t) \/ RecomputeRatio(t) \/ RecomputeReturn(t)

NextNotify == NotifyCaller(Ingestion) \/ NotifyStep(Ingestion)

SpecNotify == InitNotify /\ [][NextNotify]_vars

\* set(), update() and the listeners they call run synchronously on the
\* calling thread, which goes on running until the call returns: weak
\* fairness of the thread's steps, WF_vars(NotifyStep(Ingestion)), written
\* out.  A step is enabled exactly while the thread is inside a call.
SpecNotifyLive ==
    SpecNotify /\ ([]<>(~Busy(Ingestion)) \/ []<><<NotifyStep(Ingestion)>>_vars)

\* ------------------------------------------------------------------------
\* The tick of the page (main.py:154-156, page.py:19-26): each node's value
\* binding is updated and its visibility rule evaluated, against the store
\* itself.  Every lookup is one ChannelStore.get.
\* ------------------------------------------------------------------------

Operators == <<"<", "<=", ">", ">=", "==", "!=">>

\* the table of operators (element.py:203-210), on numbers
Operator(op, a, b) ==
    CASE op = "<" -> ~RLe(b, a)
      [] op = "<=" -> RLe(a, b)
      [] op = ">" -> ~RLe(a, b)
      [] op = ">=" -> RLe(b, a)
      [] op = "==" -> a = b
      [] op = "!=" -> a # b

\* the table of operators, on strings
StrOperator(op, a, b) ==
    CASE op = "<" -> StrLt(a, b)
      [] op = "<=" -> ~StrLt(b, a)
      [] op = ">" -> StrLt(b, a)
      [] op = ">=" -> ~StrLt(a, b)
      [] op = "==" -> a = b
      [] op = "!=" -> a # b

\* The evaluation of a rule, given the values o its lookups have returned so
\* far, in order: either it needs the value of one more channel (need), or
\* it has raised exc, or it is done with the result val, rest being the
\* values it did not use.  all() and any() stop at the first child that
\* decides.
Need(ch) == [need |-> ch, val |-> FALSE, rest |-> <<>>, exc |-> ""]
Done(val, rest) == [need |-> NoKey, val |-> val, rest |-> rest, exc |-> ""]
Raised(e) == [need |-> NoKey, val |-> FALSE, rest |-> <<>>, exc |-> e]

\* the number float(x) returns
AsNum(x) == [n |-> ToFloat(x).n, d |-> ToFloat(x).d]

\* lines 148-151: v = float(v), v kept as it is when float() raises
Coerced(v) == IF ToFloat(v).ok THEN PyFloat(ToFloat(v).n, ToFloat(v).d) ELSE v

\* lines 157-160: float(v) / float(denom); absent when the division raises
Ratio(v, denom) ==
    IF ToFloat(v).ok /\ ToFloat(denom).ok /\ ToFloat(denom).n # 0
    THEN PyFloat(RDiv(AsNum(v), AsNum(denom)).n, RDiv(AsNum(v), AsNum(denom)).d)
    ELSE Absent

\* lines 162-166: offset + v * scale when the rule has one of the two keys;
\* absent when a float() raises
PreTransform(rule, v) ==
    LET offset == IF "offset" \in rule.has THEN rule.offset ELSE PyFloat(0, 1)
        scale == IF "scale" \in rule.has THEN rule.scale ELSE PyFloat(1, 1)
        x == RAdd(AsNum(offset), RMul(AsNum(v), AsNum(scale)))
    IN  IF rule.has \cap {"scale", "offset"} = {} THEN v
        ELSE IF ToFloat(offset).ok /\ ToFloat(v).ok /\ ToFloat(scale).ok
        THEN PyFloat(x.n, x.d)
        ELSE Absent

\* variant: the upper bound is excluded
Between_UpperExclusive(rule, v) ==
    /\ ToFloat(rule.between[1]).ok /\ ToFloat(v).ok /\ ToFloat(rule.between[2]).ok
    /\ RLe(AsNum(rule.between[1]), AsNum(v))
    /\ ~RLe(AsNum(rule.between[2]), AsNum(v))

\* lines 169-174
Between(rule, v) ==
    /\ ToFloat(rule.between[1]).ok /\ ToFloat(v).ok /\ ToFloat(rule.between[2]).ok
    /\ RLe(AsNum(rule.between[1]), AsNum(v))
    /\ RLe(AsNum(v), AsNum(rule.between[2]))

\* line 178: v in rule["in"]
Membership(rule, v) == \E i \in 1..Len(rule.members) : PyEq(v, rule.members[i])

\* lines 182-188: the operator and the literal of the rule; "op" and "value"
\* first, else the first shorthand operator of the table the rule has; ""
\* is the operator None
ShortAt(rule, k) == CHOOSE i \in 1..Len(rule.short) : rule.short[i][1] = k

OpOf(rule) ==
    LET present == {j \in 1..Len(Operators) : Operators[j] \in rule.has}
        first == CHOOSE j \in present : \A i \in present : j <= i
    IN  IF "op" \in rule.has /\ rule.op # ""
        THEN [op |-> rule.op, value |-> IF "value" \in rule.has THEN rule.value ELSE PyNone]
        ELSE IF present # {}
        THEN [op |-> Operators[first],
              value |-> rule.short[ShortAt(rule, Operators[first])][2]]
        ELSE [op |-> "", value |-> PyNone]

\* variant: operands of different types are compared as they are
Compare_NoFallback(op, v, value) ==
    IF \A j \in 1..Len(Operators) : Operators[j] # op
    THEN Raised("KeyError")
    ELSE IF ToFloat(v).ok /\ ToFloat(value).ok
    THEN Done(Operator(op, AsNum(v), AsNum(value)), <<>>)
    ELSE IF v.kind = "str" /\ value.kind = "str"
    THEN Done(StrOperator(op, v.s, value.s), <<>>)
    ELSE IF op \in {"==", "!="} THEN Done(op = "!=", <<>>)
    ELSE Raised("TypeError")

\* lines 193-210: numbers when both operands are, else their strings; the
\* lookup of an operator that is not in the table raises
Compare(op, v, value) ==
    IF \A j \in 1..Len(Operators) : Operators[j] # op
    THEN Raised("KeyError")
    ELSE IF ToFloat(v).ok /\ ToFloat(value).ok
    THEN Done(Operator(op, AsNum(v), AsNum(value)), <<>>)
    ELSE Done(StrOperator(op, StrOf(v), StrOf(value)), <<>>)

\* lines 168-210, on the value v the lookup and the pre-transform gave
Decide(rule, v) ==
    IF "between" \in rule.has
    THEN IF Len(rule.between) # 2 THEN Raised("ValueError")
         ELSE Done(Between(rule, v), <<>>)
    ELSE IF "in" \in rule.has THEN Done(Membership(rule, v), <<>>)
    ELSE IF OpOf(rule).op = "" THEN Done(FALSE, <<>>)
    ELSE Compare(OpOf(rule).op, v, OpOf(rule).value)

\* variant: a channel that is not in the store is compared as None
Missing_Never(v) == FALSE

\* line 145: the channel of the leaf has no value
Missing(v) == IsNone(v)

\* lines 142-210: a rule without "all", "any", "not" and "exists"
EvalLeaf(rule, o) ==
    LET ratio == "ratio_to" \in rule.has /\ rule.ratio_to # NoKey
        used == IF ratio THEN 2 ELSE 1
        rest == SubSeq(o, used + 1, Len(o))
        v == IF ratio THEN Ratio(Coerced(o[1]), o[2]) ELSE Coerced(o[1])
        r == Decide(rule, PreTransform(rule, v))
    IN  IF "ch" \notin rule.has \/ rule.ch = NoKey THEN Done(FALSE, o)
        ELSE IF o = <<>> THEN Need(rule.ch)
        ELSE IF Missing(o[1]) THEN Done(FALSE, Tail(o))
        ELSE IF ratio /\ Len(o) < 2 THEN Need(rule.ratio_to)
        ELSE IF ratio /\ ~Truthy(o[2]) THEN Done(FALSE, rest)
        ELSE IF v = Absent \/ PreTransform(rule, v) = Absent THEN Done(FALSE, rest)
        ELSE IF r.exc # "" THEN r
        ELSE Done(r.val, rest)

RECURSIVE eval_rule(_, _), EvalAll(_, _), EvalAny(_, _)
eval_rule(rule, o) ==
    CASE rule.kind = "all" -> EvalAll(rule.rules, o)
      [] rule.kind = "any" -> EvalAny(rule.rules, o)
      [] rule.kind = "not" ->
            LET r == eval_rule(rule.rules[1], o)
            IN  IF r.need # NoKey \/ r.exc # "" THEN r ELSE Done(~r.val, r.rest)
      [] rule.kind = "exists" ->
            IF o = <<>> THEN Need(rule.ch) ELSE Done(~IsNone(Head(o)), Tail(o))
      [] OTHER -> EvalLeaf(rule, o)

EvalAll(rules, o) ==
    IF rules = <<>> THEN Done(TRUE, o)
    ELSE LET r == eval_rule(Head(rules), o)
         IN  IF r.need # NoKey \/ r.exc # "" THEN r
             ELSE IF ~r.val THEN Done(FALSE, r.rest)
             ELSE EvalAll(Tail(rules), r.rest)

\* variant: any() looks at the first child only
EvalAny_FirstChildOnly(rules, o) ==
    IF rules = <<>> THEN Done(FALSE, o)
    ELSE eval_rule(Head(rules), o)

EvalAny(rules, o) ==
    IF rules = <<>> THEN Done(FALSE, o)
    ELSE LET r == eval_rule(Head(rules), o)
         IN  IF r.need # NoKey \/ r.exc # "" THEN r
             ELSE IF r.val THEN Done(TRUE, r.rest)
             ELSE EvalAny(Tail(rules), r.rest)

\* The page: one gauge bound to rpm, shown while rpm is below 5000 in
\* second gear.
TickGauge ==
    [channel |-> "rpm", scale |-> R(1, 1), offset |-> R(0, 1),
     max_val |-> R(10000, 1),
     rule |-> RuleAll(<<RuleCompare("rpm", "<", PyInt(5000)), RuleCompare("gear", "==", PyInt(2))>>)]

\* on_ui_tick calls tick_channels(channels)
tick_channels(t) ==
    /\ ~Busy(t)
    /\ calls < MaxCalls
    /\ calls' = calls + 1
    /\ stack' = [stack EXCEPT ![t] = <<Frame("tick", "val", <<>>)>>]
    /\ obs' = <<>>
    /\ seen' = {Data}
    /\ LockUnchanged
    /\ UNCHANGED <<heap, exc, snapRef, listeners, cond, cycler, verdict, page, ema_prev, gauge, lastBy,
                   lastWriter, ret, tornSnap>>

\* GaugeBase.set_value (gauge.py:40-45)
set_value(v) ==
    LET c == RMax(R(0, 1), RMin(TickGauge.max_val, v))
        diff == RSub(c, gauge.value)
    IN  IF Abs(diff.n) > diff.d \div 1000000     \* abs(v - self._value) > 1e-6
        THEN [gauge EXCEPT !.value = c]
        ELSE gauge

\* GaugeBase.update_val (gauge.py:58-65); float(v) has no handler
update_val(t) ==
    /\ At(t, "tick", "val")
    /\ CanAcquire(t)
    /\ LET v == DictGet(Data, TickGauge.channel, PyNone)
           f == ToFloat(v)
       IN  /\ obs' = Append(obs, <<TickGauge.channel, v>>)
           /\ IF IsNone(v)
              THEN /\ stack' = SetTop(t, [Top(t) EXCEPT !.pc = "vis"])
                   /\ UNCHANGED <<gauge, exc>>
              ELSE IF ~f.ok
              THEN /\ stack' = [stack EXCEPT ![t] = Popped(t)]
                   /\ exc' = [exc EXCEPT ![t] = f.exc]
                   /\ UNCHANGED gauge
              ELSE /\ stack' = SetTop(t, [Top(t) EXCEPT !.pc = "vis"])
                   /\ gauge' = set_value(RAdd(TickGauge.offset,
                                             RMul(TickGauge.scale, [n |-> f.n, d |-> f.d])))
                   /\ UNCHANGED exc
    /\ LockUnchanged
    /\ UNCHANGED <<heap, snapRef, calls, listeners, cond, cycler, verdict, page, ema_prev, seen, lastBy,
                   lastWriter, ret, tornSnap>>

\* the values the lookups of the rule have returned in this tick
RuleValues == [j \in 1..(Len(obs) - 1) |-> obs[j + 1][2]]

\* get(name) of _eval_condition (element.py:131-132): the rule being
\* evaluated looks one more channel up
get(t) ==
    /\ At(t, "tick", "vis")
    /\ eval_rule(TickGauge.rule, RuleValues).need # NoKey
    /\ CanAcquire(t)
    /\ obs' = Append(obs, <<eval_rule(TickGauge.rule, RuleValues).need,
                            DictGet(Data, eval_rule(TickGauge.rule, RuleValues).need, PyNone)>>)
    /\ LockUnchanged
    /\ UNCHANGED <<heap, stack, exc, snapRef, calls, listeners, cond, cycler, verdict, page, ema_prev, gauge,
                   seen, lastBy, lastWriter, ret, tornSnap>>

\* evaluate_visibility (element.py:93-109) of a node without latch, once the
\* rule is evaluated; the gauge is the last node, so the tick is done
evaluate_visibility(t) ==
    /\ At(t, "tick", "vis")
    /\ eval_rule(TickGauge.rule, RuleValues).need = NoKey
    /\ IF eval_rule(TickGauge.rule, RuleValues).exc # ""
       THEN /\ exc' = [exc EXCEPT ![t] = eval_rule(TickGauge.rule, RuleValues).exc]
            /\ UNCHANGED gauge
       ELSE /\ gauge' = [gauge EXCEPT !.last_visible =
                             PyBool(eval_rule(TickGauge.rule, RuleValues).val)]
            /\ UNCHANGED exc
    /\ stack' = [stack EXCEPT ![t] = Popped(t)]
    /\ LockUnchanged
    /\ UNCHANGED <<heap, snapRef, calls, listeners, cond, cycler, verdict, page, ema_prev, obs, seen,
                   lastBy, lastWriter, ret, tornSnap>>

\* the datagrams of the ingestion during the ticks
TickMappings ==
    {<< <<"rpm", PyInt(3000)>>, <<"gear", PyInt(1)>> >>,
     << <<"rpm", PyInt(9500)>>, <<"gear", PyInt(2)>> >>}

InitTick ==
    /\ InitCommon
    /\ listeners = <<>>

TickStep(t) ==
    \/ tick_channels(t)
    \/ update_val(t)
    \/ get(t)
    \/ evaluate_visibility(t)

IngestionStep(t) ==
    \/ \E m \in TickMappings : CallUpdate(t, m)
    \/ UpdateLock(t) \/ UpdateWrite(t) \/ UpdateUnlock(t)
    \/ EmitNext(t)

NextTick == IngestionStep(Ingestion) \/ TickStep(Reader)

SpecTick == InitTick /\ [][NextTick]_vars

\* ------------------------------------------------------------------------
\* _eval_condition as a function of the rule and the store
\* (element.py:117-212)
\* ------------------------------------------------------------------------

\* the evaluation of the rule up to its end, each lookup answered by store
RECURSIVE Evaluated(_, _, _)
Evaluated(rule, store, o) ==
    LET r == eval_rule(rule, o)
    IN  IF r.need = NoKey THEN r
        ELSE Evaluated(rule, store, Append(o, DictGet(store, r.need, PyNone)))

\* variant: get(name) is store.setdefault(name, None), which stores None
\* under a channel the store does not hold
eval_condition_SetsDefault ==
    /\ ~verdict.done
    /\ verdict' = [done |-> TRUE, val |-> Evaluated(cond, Data, <<>>).val,
                   exc |-> Evaluated(cond, Data, <<>>).exc]
    /\ heap' = [heap EXCEPT ![StoreObj] =
                    [k \in Keys |-> IF k \in {"gear", "speed"} /\ Data[k] = Absent
                                    THEN PyNone ELSE Data[k]]]
    /\ UNCHANGED <<lockOwner, lockCount, stack, exc, snapRef, calls,
                   listeners, cond, cycler, page, ema_prev, obs, gauge, seen, lastBy,
                   lastWriter, ret, tornSnap>>

\* return bool(eval_rule(spec)) (line 212), or the exception of eval_rule
eval_condition ==
    /\ ~verdict.done
    /\ verdict' = [done |-> TRUE, val |-> Evaluated(cond, Data, <<>>).val,
                   exc |-> Evaluated(cond, Data, <<>>).exc]
    /\ UNCHANGED <<heap, lockOwner, lockCount, stack, exc, snapRef, calls,
                   listeners, cond, cycler, page, ema_prev, obs, gauge, seen, lastBy,
                   lastWriter, ret, tornSnap>>

\* the rule of a page: moving and not in neutral
MovingInGear ==
    RuleAll(<<RuleCompare("speed", ">", PyInt(0)),
              RuleNot(RuleCompare("gear", "==", PyInt(0)))>>)

Literals == {PyInt(1), PyStr(<<"N">>), PyStr(<<"5", "-">>), PyStr(<<"T", "r", "u", "e">>)}

\* leaves on the gear channel, without pre-transform
PlainLeaves ==
    {RuleCompare("gear", Operators[j], x) : j \in 1..Len(Operators), x \in Literals}
    \cup {RuleOp("gear", "<", PyInt(1)), RuleOp("gear", "==", PyStr(<<"N">>))}
    \cup {RuleBetween("gear", PyInt(0), PyInt(1)),
          RuleBetween("gear", PyFloat(1, 2), PyStr(<<"2", ".", "5">>))}
    \cup {RuleIn("gear", <<PyInt(0), PyInt(1)>>),
          RuleIn("gear", <<PyStr(<<"N">>), PyStr(<<"R">>)>>)}

\* the leaves, with and without the keys of the pre-transform
Leaves ==
    PlainLeaves
    \cup {WithScale(r, PyInt(2)) : r \in PlainLeaves}
    \cup {WithOffset(r, PyInt(1)) : r \in PlainLeaves}
    \cup {WithRatio(r, "max_rpm") : r \in PlainLeaves}
    \cup {WithRatio(WithScale(WithOffset(r, PyInt(1)), PyInt(2)), "max_rpm") : r \in PlainLeaves}

Composites ==
    {MovingInGear, RuleAll(<<>>), RuleAny(<<>>),
     RuleNot(RuleCompare("gear", "==", PyInt(0))),
     RuleAny(<<RuleCompare("speed", ">", PyInt(0)), RuleCompare("gear", "==", PyInt(0))>>),
     RuleNot(RuleAny(<<RuleExists("speed"), RuleBetween("gear", PyInt(0), PyInt(1))>>)),
     RuleAll(<<RuleExists("gear"), RuleIn("gear", <<PyInt(0), PyInt(1)>>),
               RuleCompare("speed", "<=", PyInt(10))>>)}

Rules == Leaves \cup Composites \cup {RuleExists("gear")}

\* what the store holds under the channels of the rules
GearValues ==
    {Absent, PyNone, PyInt(0), PyInt(1), PyInt(5), PyFloat(1, 2), PyBool(TRUE),
     PyStr(<<"1">>), PyStr(<<"N">>), PyStr(<<"5", "-">>)}
SpeedValues == {Absent, PyInt(0), PyInt(10)}
MaxRpmValues == {Absent, PyInt(0), PyFloat(0, 1), PyInt(2), PyStr(<<"0">>), PyStr(<<"4">>)}

\* the arguments of _eval_condition: a store and one of the rules
InitEvaluator(rules) ==
    /\ \E g \in GearValues, v \in SpeedValues, m \in MaxRpmValues :
          heap = [o \in {StoreObj} \cup Threads |->
                    IF o = StoreObj
                    THEN [EmptyDict EXCEPT !["gear"] = g, !["speed"] = v, !["max_rpm"] = m]
                    ELSE EmptyDict]
    /\ cond \in rules
    /\ cycler = NoCycler
    /\ verdict = NoVerdict
    /\ page = NoPage
    /\ lockOwner = NoThread
    /\ lockCount = 0
    /\ stack = [t \in Threads |-> <<>>]
    /\ exc = [t \in Threads |-> ""]
    /\ snapRef = [t \in Threads |-> NoRef]
    /\ calls = 0
    /\ listeners = <<>>
    /\ ema_prev = EmptyDict
    /\ lastBy = [t \in Threads |-> EmptyDict]
    /\ lastWriter = [k \in Keys |-> NoThread]
    /\ obs = <<>>
    /\ gauge = [value |-> R(0, 1), last_visible |-> PyNone]
    /\ seen = {}
    /\ ret = [t \in Threads |-> NoRet]
    /\ tornSnap = [t \in Threads |-> FALSE]

InitRules == InitEvaluator(Rules)

NextRules == eval_condition

SpecRules == InitRules /\ [][NextRules]_vars

\* the rule without its "ch" key
WithoutCh(rule) == [rule EXCEPT !.has = @ \ {"ch"}, !.ch = NoKey]

\* leaves that lack a key or hold a value the evaluator has no case for: no
\* "ch"; no operator; an "op" that is not in the table; a "between" list of
\* zero, one or three bounds
MalformedRules ==
    {WithoutCh(RuleCompare("gear", "<", PyInt(1))),
     WithoutCh(RuleBetween("gear", PyInt(0), PyInt(1))),
     WithoutCh(RuleIn("gear", <<PyInt(0), PyInt(1)>>)),
     Leaf("gear"),
     WithScale(Leaf("gear"), PyInt(2)),
     [Leaf("gear") EXCEPT !.has = @ \cup {"value"}, !.value = PyInt(1)],
     RuleOp("gear", "=", PyInt(1)),
     RuleOp("gear", "lt", PyStr(<<"N">>)),
     WithRatio(RuleOp("gear", "=", PyInt(1)), "max_rpm"),
     [RuleBetween("gear", PyInt(0), PyInt(1)) EXCEPT !.between = <<>>],
     [RuleBetween("gear", PyInt(0), PyInt(1)) EXCEPT !.between = <<PyInt(0)>>],
     [RuleBetween("gear", PyInt(0), PyInt(1)) EXCEPT
          !.between = <<PyInt(0), PyInt(1), PyInt(2)>>]}

InitMalformed == InitEvaluator(MalformedRules)

SpecMalformed == InitMalformed /\ [][NextRules]_vars

\* ------------------------------------------------------------------------
\* The display nodes of a page and its tick (controller/page.py:19-26,
\* elements/*.py).  main.py runs on_ui_tick and the datagram handler on one
\* event loop: the store is written between two ticks, never during one.
\* ------------------------------------------------------------------------

\* ticks of one behaviour
MaxTicks == 3

\* None as a rule (the empty dict is NoRule)
RuleNone == [NoRule EXCEPT !.kind = "none"]

\* bool(rule) of a rule or None
RuleTruthy(rule) == rule.kind # "none" /\ rule.has # {}

\* A "visible_when" document (element.py:67-70): kind "none" is None or {},
\* "plain" a rule (in when), "wrapper" a dict with one of the keys "latch",
\* "when", "reset_when" (has names the ones it has); rest is the rule made
\* of its other keys.
NoDoc ==
    [kind |-> "none", has |-> {}, latch |-> FALSE, when |-> RuleNone,
     reset_when |-> RuleNone, rest |-> NoRule]
PlainDoc(rule) == [NoDoc EXCEPT !.kind = "plain", !.when = rule]
Wrapper(has, latch, when, reset_when) ==
    [NoDoc EXCEPT !.kind = "wrapper", !.has = has, !.latch = latch,
                  !.when = IF "when" \in has THEN when ELSE RuleNone,
                  !.reset_when = IF "reset_when" \in has THEN reset_when ELSE RuleNone]

\* A display node after its constructor (element.py:24-28, gauge.py:29-32,
\* readout.py:31-54, text.py:25-41, image_gauge.py:28-29); parent is the
\* index of the group that owns it, 0 for a node of ElementList._elements.
\* n_val, n_vis, updates and shown count, within the tick in progress, the
\* calls of update_val and of evaluate_visibility on the node and its
\* calls of update() and of setVisible().
Node(type, parent, channel) ==
    [type |-> type, parent |-> parent, channel |-> channel, doc |-> NoDoc,
     scale |-> R(1, 1), offset |-> R(0, 1), max_val |-> R(10000, 1),
     rule |-> RuleNone, reset_rule |-> RuleNone, latch_enabled |-> FALSE,
     latched |-> FALSE, last_visible |-> PyNone,
     value |-> R(0, 1), text |-> <<>>, last_text |-> PyNone,
     x |-> 0, y |-> 0,
     n_val |-> 0, n_vis |-> 0, updates |-> 0, shown |-> 0]

\* Element.set_visible_when (element.py:66-91)
set_visible_when(e, spec) ==
    LET defaults == [e EXCEPT !.doc = spec, !.rule = RuleNone, !.reset_rule = RuleNone,
                              !.latch_enabled = FALSE, !.latched = FALSE,
                              !.last_visible = PyNone]
    IN  CASE spec.kind = "none" -> defaults
          [] spec.kind = "wrapper" ->
                [defaults EXCEPT
                    !.latch_enabled = "latch" \in spec.has /\ spec.latch,
                    !.rule = IF spec.when.kind # "none" THEN spec.when ELSE spec.rest,
                    !.reset_rule = spec.reset_when]
          [] OTHER -> [defaults EXCEPT !.rule = spec.when]

\* variant: the reset is applied after the rule
Latch_ResetWins(e, reset, when) == IF reset THEN FALSE ELSE IF when THEN TRUE ELSE e.latched

\* variant: the latch follows the rule
Latch_FollowsRule(e, reset, when) == when

\* variant: the reset rule is not looked at
Latch_IgnoresReset(e, reset, when) == when \/ e.latched

\* lines 98-102: the latch after the reset rule and the rule gave reset and when
Latch(e, reset, when) == IF when THEN TRUE ELSE IF reset THEN FALSE ELSE e.latched

\* variant: a node that was shown stays shown
Visibility_Sticky(e, latched, when) ==
    IF e.rule.kind = "none" /\ ~e.latch_enabled THEN TRUE
    ELSE IF e.latch_enabled THEN latched
    ELSE when \/ e.last_visible = PyBool(TRUE)

\* lines 94-105: vis, given the latch of this tick and the value of the rule
Visibility(e, latched, when) ==
    IF e.rule.kind = "none" /\ ~e.latch_enabled THEN TRUE
    ELSE IF e.latch_enabled THEN latched
    ELSE when

\* lines 107-109
Show(e, vis) ==
    IF PyBool(vis) # e.last_visible
    THEN [e EXCEPT !.last_visible = PyBool(vis), !.shown = @ + 1]
    ELSE e

\* lines 94-109, given what the reset rule and the rule evaluate to: the
\* node after the call, and the exception the call raised; a rule that
\* raises leaves the node as the statements before it made it
Visible(e, reset, when) ==
    LET doReset == e.latch_enabled /\ RuleTruthy(e.reset_rule)
        doWhen == IF e.latch_enabled THEN RuleTruthy(e.rule) ELSE e.rule.kind # "none"
        e1 == [e EXCEPT !.latched = Latch(e, doReset /\ reset.val, FALSE)]
        e2 == IF e.latch_enabled
              THEN [e EXCEPT !.latched = Latch(e, doReset /\ reset.val, doWhen /\ when.val)]
              ELSE e
    IN  IF doReset /\ reset.exc # "" THEN [e |-> e, exc |-> reset.exc]
        ELSE IF doWhen /\ when.exc # "" THEN [e |-> e1, exc |-> when.exc]
        ELSE [e |-> Show(e2, Visibility(e2, e2.latched, doWhen /\ when.val)), exc |-> ""]

\* Element.evaluate_visibility (element.py:93-109)
EvaluateNode(e, store) ==
    Visible(e, Evaluated(e.reset_rule, store, <<>>), Evaluated(e.rule, store, <<>>))

\* the default format "{value}" of a float
FormatValue(v) == FloatStr(v.n, v.d)

\* update_val of the node types.  The node after the call, and the
\* exception the call raised.
\*   Element, Group (element.py:63-64): nothing
\*   GaugeBase (gauge.py:39-45, 58-65): float(v) is not guarded
\*   Readout (readout.py:120-143)
\*   TextElement (text.py:114-126, 44-47)
\*   ImageGauge (image_gauge.py:86-109), without ema
UpdateNode(e, store) ==
    LET raw == DictGet(store, e.channel, PyNone)
        f == ToFloat(raw)
        v == RAdd(e.offset, RMul(e.scale, AsNum(raw)))
        g == RMax(R(0, 1), RMin(e.max_val, v))
        diff == RSub(g, e.value)
        unit == RMax(R(0, 1), RMin(R(1, 1), v))
        new_text == IF f.ok THEN FormatValue(v) ELSE StrOf(raw)
        same == [e |-> e, exc |-> ""]
    IN  IF e.type \in {"element", "group"} \/ e.channel = NoKey \/ IsNone(raw) THEN same
        ELSE CASE e.type = "gauge" ->
                    IF ~f.ok THEN [e |-> e, exc |-> f.exc]
                    ELSE IF Abs(diff.n) > diff.d \div 1000000
                    THEN [e |-> [e EXCEPT !.value = g, !.updates = @ + 1], exc |-> ""]
                    ELSE same
               [] e.type = "readout" ->
                    IF PyStr(new_text) # e.last_text
                    THEN [e |-> [e EXCEPT !.last_text = PyStr(new_text), !.text = new_text,
                                          !.updates = @ + 1],
                          exc |-> ""]
                    ELSE same
               [] e.type = "text" ->
                    IF StrOf(raw) # e.text
                    THEN [e |-> [e EXCEPT !.text = StrOf(raw), !.updates = @ + 1], exc |-> ""]
                    ELSE same
               [] e.type = "image_gauge" ->
                    IF ~f.ok THEN same
                    ELSE [e |-> [e EXCEPT !.value = unit, !.updates = @ + 1], exc |-> ""]

\* the nodes of ElementList._elements from index i on: the top-level ones
NextElement(i) ==
    LET later == {j \in (i + 1)..Len(page.nodes) : page.nodes[j].parent = 0}
    IN  IF later = {} THEN 0 ELSE CHOOSE j \in later : \A k \in later : j <= k

\* on_ui_tick (main.py:154-156) calls Page.tick_channels (page.py:19-26),
\* which starts its loop
TickStart ==
    /\ page.pos = 0
    /\ page.ticks < MaxTicks
    /\ NextElement(0) # 0
    /\ page' = [page EXCEPT
                   !.pos = NextElement(0), !.phase = "val", !.ticks = @ + 1,
                   !.raised = "",
                   !.nodes = [i \in 1..Len(page.nodes) |->
                                 [page.nodes[i] EXCEPT !.n_val = 0, !.n_vis = 0,
                                                       !.updates = 0, !.shown = 0]]]
    /\ UNCHANGED <<heap, lockOwner, lockCount, stack, exc, snapRef, calls,
                   listeners, cond, cycler, verdict, ema_prev, obs, gauge, seen, lastBy,
                   lastWriter, ret, tornSnap>>

\* the page after upd(store) of the node at pos gave r
AfterVal(r) ==
    IF r.exc # ""
    THEN [page EXCEPT !.nodes[page.pos] = [r.e EXCEPT !.n_val = @ + 1], !.pos = 0,
                      !.phase = "", !.raised = r.exc]
    ELSE [page EXCEPT !.nodes[page.pos] = [r.e EXCEPT !.n_val = @ + 1], !.phase = "vis"]

\* the page after vis(store) of the node at pos gave r
AfterVis(r) ==
    IF r.exc # ""
    THEN [page EXCEPT !.nodes[page.pos] = [r.e EXCEPT !.n_vis = @ + 1], !.pos = 0,
                      !.phase = "", !.raised = r.exc]
    ELSE [page EXCEPT !.nodes[page.pos] = [r.e EXCEPT !.n_vis = @ + 1],
                      !.pos = NextElement(page.pos),
                      !.phase = IF NextElement(page.pos) = 0 THEN "" ELSE "val"]

\* upd(store) of the loop; an exception ends the tick
UpdateVal ==
    /\ page.pos # 0
    /\ page.phase = "val"
    /\ page' = AfterVal(UpdateNode(page.nodes[page.pos], Data))
    /\ UNCHANGED <<heap, lockOwner, lockCount, stack, exc, snapRef, calls,
                   listeners, cond, cycler, verdict, ema_prev, obs, gauge, seen, lastBy,
                   lastWriter, ret, tornSnap>>

\* vis(store) of the loop, then the next element
EvaluateVisibility ==
    /\ page.pos # 0
    /\ page.phase = "vis"
    /\ page' = AfterVis(EvaluateNode(page.nodes[page.pos], Data))
    /\ UNCHANGED <<heap, lockOwner, lockCount, stack, exc, snapRef, calls,
                   listeners, cond, cycler, verdict, ema_prev, obs, gauge, seen, lastBy,
                   lastWriter, ret, tornSnap>>

\* channels.set(k, v) of the datagram handler between two ticks; no
\* transform listens
StoreSet(k, v) ==
    /\ page.pos = 0
    /\ calls < MaxCalls
    /\ calls' = calls + 1
    /\ heap' = [heap EXCEPT ![StoreObj][k] = v]
    /\ UNCHANGED <<lockOwner, lockCount, stack, exc, snapRef, listeners, cond, cycler,
                   verdict, page, ema_prev, obs, gauge, seen, lastBy, lastWriter,
                   ret, tornSnap>>

\* the page with the nodes, before its first tick
PageOf(nodes) == [NoPage EXCEPT !.nodes = nodes]

InitPage(pages) ==
    /\ page \in pages
    /\ heap = [o \in {StoreObj} \cup Threads |-> EmptyDict]
    /\ cond = NoRule
    /\ cycler = NoCycler
    /\ verdict = NoVerdict
    /\ lockOwner = NoThread
    /\ lockCount = 0
    /\ stack = [t \in Threads |-> <<>>]
    /\ exc = [t \in Threads |-> ""]
    /\ snapRef = [t \in Threads |-> NoRef]
    /\ calls = 0
    /\ listeners = <<>>
    /\ ema_prev = EmptyDict
    /\ lastBy = [t \in Threads |-> EmptyDict]
    /\ lastWriter = [k \in Keys |-> NoThread]
    /\ obs = <<>>
    /\ gauge = [value |-> R(0, 1), last_visible |-> PyNone]
    /\ seen = {}
    /\ ret = [t \in Threads |-> NoRet]
    /\ tornSnap = [t \in Threads |-> FALSE]

\* ------------------------------------------------------------------------
\* A page with one node that has a "visible_when" document
\* ------------------------------------------------------------------------

Revving == RuleCompare("rpm", ">", PyInt(5000))
InFirst == RuleCompare("gear", "==", PyInt(1))

VisibleWhenDocuments ==
    {NoDoc,
     PlainDoc(Revving),
     Wrapper({"latch", "when", "reset_when"}, TRUE, Revving, InFirst),
     Wrapper({"latch", "when"}, TRUE, Revving, RuleNone),
     Wrapper({"latch", "when", "reset_when"}, FALSE, Revving, InFirst),
     Wrapper({"when", "reset_when"}, FALSE, Revving, InFirst),
     Wrapper({"latch", "reset_when"}, TRUE, RuleNone, InFirst)}

LatchPages ==
    {PageOf(<<set_visible_when(Node("element", 0, NoKey), d)>>) : d \in VisibleWhenDocuments}

InitLatch == InitPage(LatchPages)

NextLatch ==
    \/ TickStart
    \/ UpdateVal
    \/ EvaluateVisibility
    \/ \E v \in {PyInt(3000), PyInt(6000)} : StoreSet("rpm", v)
    \/ \E v \in {PyInt(1), PyInt(2)} : StoreSet("gear", v)

SpecLatch == InitLatch /\ [][NextLatch]_vars

\* ------------------------------------------------------------------------
\* Pages with nodes of every type, and with groups
\* ------------------------------------------------------------------------

\* a gauge, a readout and a text on rpm, an image gauge on rpm_norm
Dashboard ==
    <<Node("readout", 0, "rpm"), Node("text", 0, "rpm"),
      Node("image_gauge", 0, "rpm_norm"), Node("gauge", 0, "rpm"),
      Node("text", 0, "gear")>>

\* a group that owns a readout and a group, which owns a text; then a text
\* (element_list.py:135-146: the children are added to their group only)
Grouped ==
    <<Node("group", 0, NoKey), Node("readout", 1, "rpm"), Node("group", 1, NoKey),
      Node("text", 3, "gear"), Node("text", 0, "gear")>>

NodePages == {PageOf(Dashboard), PageOf(Grouped)}

InitNodes == InitPage(NodePages)

NextNodes ==
    \/ TickStart
    \/ UpdateVal
    \/ EvaluateVisibility
    \/ \E v \in {PyInt(3000), PyStr(<<"N">>)} : StoreSet("rpm", v)
    \/ \E v \in {PyFloat(1, 2)} : StoreSet("rpm_norm", v)
    \/ \E v \in {PyInt(1)} : StoreSet("gear", v)

SpecNodes == InitNodes /\ [][NextNodes]_vars

\* ------------------------------------------------------------------------
\* A page with one group whose item asks for a translation by channels:
\*   {"type": "group", "x": 100, "y": 50,
\*    "translate": {"dx_ch": "speed", "scale_x": 2, "offset_x": 1,
\*                  "dy_ch": "gear", "offset_y": 3}}
\* ------------------------------------------------------------------------

Sliding ==
    [dx_ch |-> "speed", scale_x |-> R(2, 1), offset_x |-> R(1, 1),
     dy_ch |-> "gear", scale_y |-> R(1, 1), offset_y |-> R(3, 1)]

\* _parse_item for a group (element_list.py:135-146): the geometry and
\* "visible_when" of the item are used; set_translate is not called, so
\* that _translate_spec stays None (group.py:18) whatever the item says
ParseGroup(x, y, translate) ==
    [Node("group", 0, NoKey) EXCEPT !.x = x, !.y = y]

GroupPages == {PageOf(<<ParseGroup(100, 50, Sliding)>>)}

InitGroup == InitPage(GroupPages)

NextGroup ==
    \/ TickStart
    \/ UpdateVal
    \/ EvaluateVisibility
    \/ \E v \in {PyInt(0), PyInt(10), PyFloat(5, 2)} : StoreSet("speed", v)
    \/ \E v \in {PyInt(1), PyInt(2)} : StoreSet("gear", v)

SpecGroup == InitGroup /\ [][NextGroup]_vars

\* ------------------------------------------------------------------------
\* Properties of the store
\* ------------------------------------------------------------------------

Frames(t) == {stack[t][j] : j \in 1..Depth(t)}

\* C1: no snapshot() of a thread is copied between two stores of one
\* update() of another thread, so none shows one key of that update new
\* and another key of it old.
C1_UpdateAtomicForSnapshot == \A t \in Threads : ~tornSnap[t]

\* the reader has a snapshot with the value of an update that is still running
C1_Witness ==
    /\ ret[Reader].op = "snapshot"
    /\ Busy(Ingestion)
    /\ stack[Ingestion][1].op = "update"
    /\ stack[Ingestion][1].w = 2
    /\ heap[Reader]["rpm"] = lastBy[Ingestion]["rpm"]
    /\ heap[Reader]["gear"] = lastBy[Ingestion]["gear"]

\* t is emitting: a set/update of t has reached its changed.emit
Notifying(t) == \E f \in Frames(t) : IsWrite(f) /\ f.pc \in {"emit", "dispatch"}

\* C2: a thread that emits (a listener may be running) does not hold the
\* lock, and the lock is held only by a thread between the stores of an
\* update(): no thread waits for the lock until a listener returns, and a
\* set() called by a listener finds the lock free or held by such a thread.
C2_ListenersRunUnlocked ==
    \A t \in Threads :
        /\ Notifying(t) => lockOwner # t
        /\ lockOwner = t => At(t, "update", "write") /\ lockCount = 1

\* the listener of the ingestion has called set() and stored rpm_k, while
\* the reader is inside a call
C2_Witness ==
    /\ Depth(Ingestion) = 3
    /\ stack[Ingestion][2].op = "recompute"
    /\ Top(Ingestion).op = "set" /\ Top(Ingestion).pc = "emit"
    /\ Busy(Reader)

DisjointWriters ==
    \A k \in Keys : Cardinality({t \in Threads : lastBy[t][k] # Absent}) <= 1

\* C3: a snapshot() copied when no other thread is inside a call, the two
\* threads having written disjoint key sets, holds for every written key
\* the last value its writer stored.
C3_NoLostWrite ==
    [][\A t \in Threads :
         (SnapshotCopy(t) /\ (\A u \in Threads \ {t} : ~Busy(u)) /\ DisjointWriters)
         => \A u \in Threads : \A k \in Keys :
               lastBy[u][k] # Absent => heap'[t][k] = lastBy[u][k]]_vars

C3_Witness ==
    /\ \A t \in Threads : ~Busy(t)
    /\ ret[Reader].op = "snapshot"
    /\ DisjointWriters
    /\ lastBy[Ingestion]["rpm"] # Absent /\ lastBy[Reader]["gear"] # Absent
    /\ heap[Reader]["rpm"] = lastBy[Ingestion]["rpm"]
    /\ heap[Reader]["gear"] = lastBy[Reader]["gear"]

\* C5: the items a set/update has emitted are the first items of the call,
\* in order, each with the value of the call; none is emitted before every
\* key of the call is stored; and a call that returned had emitted every
\* item once.
C5_NotifiesOncePerKey ==
    \A t \in Threads :
        /\ ret[t].complete
        /\ \A f \in Frames(t) :
              IsWrite(f) =>
                /\ Len(f.emitted) <= Len(f.items)
                /\ f.emitted = SubSeq(f.items, 1, Len(f.emitted))
                /\ f.emitted # <<>> => f.w = Len(f.items)
                /\ f.pc = "dispatch" => Len(f.emitted) = f.i + 1

\* an update has emitted its first key and is about to emit the second
C5_Witness ==
    /\ Busy(Ingestion)
    /\ stack[Ingestion][1].op = "update"
    /\ stack[Ingestion][1].pc = "dispatch"
    /\ stack[Ingestion][1].items[1][1] = "rpm"
    /\ stack[Ingestion][1].emitted = << stack[Ingestion][1].items[1] >>
    /\ ret[Reader].op = "set"

\* C6: a step that changes the store leaves the mapping of every earlier
\* snapshot() as it was, and a store into a mapping returned by snapshot()
\* leaves the store as it was.
C6_SnapshotIsACopy ==
    [][/\ heap'[StoreObj] # heap[StoreObj]
          => \A t \in Threads : snapRef[t] # NoRef => heap'[snapRef[t]] = heap[snapRef[t]]
       /\ (\E t \in Threads : \E k \in Keys : \E v \in ValsOf(k) : MutateSnapshot(t, k, v))
          => heap'[StoreObj] = heap[StoreObj]]_vars

\* the reader changed its snapshot and the ingestion wrote after it
C6_Witness ==
    /\ snapRef[Reader] # NoRef
    /\ heap[snapRef[Reader]]["gear"] # Absent /\ Data["gear"] = Absent
    /\ heap[snapRef[Reader]]["rpm"] = Absent /\ Data["rpm"] # Absent

\* C7: no step removes a key from the store, and a get() returns the value
\* of the most recent write to its key, or its default when there was none.
C7_LastWriteWins ==
    [][/\ \A k \in Keys : Data[k] # Absent => Data'[k] # Absent
       /\ \A t \in Threads : ret'[t].op = "get" => ret'[t].val = ret'[t].expect]_vars

\* a get of a key both threads wrote, returning the later write
C7_Witness ==
    /\ ret[Reader].op = "get"
    /\ lastBy[Ingestion]["gear"] # Absent /\ lastBy[Reader]["gear"] # Absent
    /\ lastBy[Ingestion]["gear"] # lastBy[Reader]["gear"]
    /\ lastWriter["gear"] = Ingestion
    /\ ret[Reader].val = lastBy[Ingestion]["gear"]

\* ------------------------------------------------------------------------
\* Properties of the transform
\* ------------------------------------------------------------------------

\* the denominator channel of cfg is absent or holds a number equal to zero
DenomAbsentOrZero(cfg) ==
    Data[cfg.ratio_to] = Absent
        \/ (IsNumber(Data[cfg.ratio_to]) /\ Data[cfg.ratio_to].n = 0)

\* C8: a recompute that reads the denominator while the denominator channel
\* is absent or equal to zero returns without calling set(): the store is
\* left as it was, so the target keeps its value or stays absent.
C8_BlockedDenominatorNoWrite ==
    [][\A t \in Threads :
        (/\ At(t, "recompute", "ratio")
         /\ DenomAbsentOrZero(listeners[Top(t).sp])
         /\ stack'[t] # stack[t])
        => (heap' = heap /\ stack'[t] = Popped(t))]_vars

\* fuel_pct had been derived, then a write left the capacity equal to zero:
\* the recompute of that write was blocked, and fuel_pct is still there
C8_Witness ==
    /\ ~Busy(Ingestion)
    /\ IsWrite(ret[Ingestion])
    /\ exc[Ingestion] = ""
    /\ Data["fuel_l"] = PyInt(15)
    /\ Data["fuel_capacity_l"] = PyFloat(0, 1)
    /\ Data["fuel_pct"] = PyFloat(1, 4)

\* the source channel of cfg is absent or holds a value float() rejects
SourceAbsentOrNotNumber(cfg) ==
    Data[Src(cfg)] = Absent \/ ~ToFloat(Data[Src(cfg)]).ok

\* C9: a recompute that reads its source while the source channel is absent
\* or not coercible to a number returns without calling set() and without
\* raising: the store, the smoothing state and the pending error of the
\* thread are left as they were.
C9_UnusableSourceAborts ==
    [][\A t \in Threads :
        (/\ At(t, "recompute", "src")
         /\ SourceAbsentOrNotNumber(listeners[Top(t).sp])
         /\ stack'[t] # stack[t])
        => (/\ heap' = heap
            /\ ema_prev' = ema_prev
            /\ exc' = exc
            /\ stack'[t] = Popped(t))]_vars

\* fuel_pct had been derived and smoothed, then the source was set to "abc":
\* the call returned without error, target and smoothing state are kept
C9_Witness ==
    /\ ~Busy(Ingestion)
    /\ ret[Ingestion].op = "set"
    /\ exc[Ingestion] = ""
    /\ Data["fuel_l"] = PyStr(<<"a", "b", "c">>)
    /\ Data["fuel_pct"] = PyFloat(1, 4)
    /\ ema_prev["fuel_pct"] = PyFloat(1, 4)

\* C10: no recompute raises: at no time is an exception of a recompute on
\* its way to the emit, and through it to the set()/update(), that called it.
C10_RecomputeNeverRaises == \A t \in Threads : exc[t] = ""

\* ------------------------------------------------------------------------
\* Properties of the tick
\* ------------------------------------------------------------------------

\* C4: the lookups of a tick all return the values of one state the store
\* was in during that tick (a state between two stores of an update()
\* included), also while the ingestion writes.
C4_TickSeesOneState ==
    obs = <<>>
        \/ \E S \in seen : \A j \in 1..Len(obs) : DictGet(S, obs[j][1], PyNone) = obs[j][2]

\* ------------------------------------------------------------------------
\* Properties of the pipeline of recompute
\* ------------------------------------------------------------------------

\* thread t takes the step of a recompute that calls channels.set(target, v)
RecomputeStores(t) ==
    /\ Busy(t)
    /\ Top(t).op = "recompute"
    /\ Top(t).pc \in {"src", "ratio"}
    /\ Len(stack'[t]) = Depth(t) + 1

\* the spec of the recompute t is in, and the value it passes to channels.set
CfgOf(t) == listeners[Top(t).sp]
StoredBy(t) == stack'[t][Depth(t) + 1].items[1][2]

\* a stored number, as a number

Num(x) == [n |-> x.n, d |-> x.d]

\* the result of ratio, affine and clamp for cfg on the store as it is
Sample(cfg) ==
    Clamp(cfg, Affine(cfg,
        IF cfg.ratio_to = NoKey THEN Num(ToFloat(Data[Src(cfg)]))
        ELSE RDiv(Num(ToFloat(Data[Src(cfg)])), Num(ToFloat(Data[cfg.ratio_to])))))

\* C11: with ema = alpha in (0, 1), a recompute that stores its target stores
\* the sample itself when no recompute has stored the target before, and
\* prev + alpha * (sample - prev) otherwise, prev being the value the
\* previous recompute stored (the caller never writes the target, so prev is
\* the target's value in the store).
C11_EmaFromPreviousStored ==
    [][\A t \in Threads :
        (RecomputeStores(t) /\ HasEma(CfgOf(t)))
        => Num(StoredBy(t)) =
              IF Data[CfgOf(t).target] = Absent THEN Sample(CfgOf(t))
              ELSE RAdd(Num(Data[CfgOf(t).target]),
                        RMul(CfgOf(t).ema,
                             RSub(Sample(CfgOf(t)), Num(Data[CfgOf(t).target]))))]_vars

\* the first sample 1.0 was stored as it is, the second sample 2.0 as 1.5
C11_Witness ==
    /\ ~Busy(Ingestion)
    /\ exc[Ingestion] = ""
    /\ listeners = <<FuelScaled>>
    /\ Data["fuel_capacity_l"] = PyBool(TRUE)
    /\ Data["fuel_pct"] = PyFloat(3, 2)
    /\ ema_prev["fuel_pct"] = PyFloat(3, 2)

\* C12: the value a recompute stores is the smoothing of
\* max(lo, min(hi, offset + scale * (source / denominator))): the ratio is
\* taken first, the affine step applies to the ratio, the clamp to the
\* affine result, and the smoothing takes the clamped value as its sample.
C12_PipelineOrder ==
    [][\A t \in Threads :
        (RecomputeStores(t) /\ CfgOf(t) = FuelScaled)
        => LET ratio == RDiv(Num(ToFloat(Data["fuel_l"])), Num(ToFloat(Data["fuel_capacity_l"])))
               affine == RAdd(R(1, 2), RMul(R(2, 1), ratio))
               clamped == RMax(R(0, 1), RMin(R(2, 1), affine))
               prev == ema_prev["fuel_pct"]
           IN  Num(StoredBy(t)) =
                  IF prev = Absent THEN clamped
                  ELSE RAdd(Num(prev), RMul(R(1, 2), RSub(clamped, Num(prev))))]_vars

\* the first sample 30.5 was stored clamped to 2.0, and the second sample
\* 1.0 was blended with 2.0
C12_Witness ==
    /\ ~Busy(Ingestion)
    /\ exc[Ingestion] = ""
    /\ listeners = <<FuelScaled>>
    /\ Data["fuel_l"] = PyInt(15)
    /\ Data["fuel_capacity_l"] = PyInt(60)
    /\ Data["fuel_pct"] = PyFloat(3, 2)

\* ------------------------------------------------------------------------
\* Properties of the page load and of chained transforms
\* ------------------------------------------------------------------------

\* the store holds what the recompute of cfg needs: a numeric source and,
\* with ratio_to, a numeric denominator that is not zero
Computable(cfg) ==
    /\ ~SourceAbsentOrNotNumber(cfg)
    /\ cfg.ratio_to # NoKey =>
          (ToFloat(Data[cfg.ratio_to]).ok /\ ToFloat(Data[cfg.ratio_to]).n # 0)

\* C13: when the transform setup of a page load has returned, the target of
\* every spec whose source (and denominator) the store holds is stored as
\* clamp(offset + scale * (source / denominator)) of the values in the
\* store, whatever the order of the specs in the document.
C13_LoadDerivesEveryTarget ==
    \A t \in Threads :
        (~Busy(t) /\ ret[t].op = "setup")
        => \A j \in 1..Len(listeners) :
              Computable(listeners[j])
              => Data[listeners[j].target]
                    = PyFloat(Sample(listeners[j]).n, Sample(listeners[j]).d)

\* C14: with rpm_k derived from rpm and rpm_norm from rpm_k (neither
\* smoothed), when a set("rpm", x) called after the page load returns, rpm_k
\* is clamp(x / 1000) of the new x and rpm_norm is clamp(rpm_k / 9) of the
\* new rpm_k, for both orders of the two specs.
C14_ChainFollowsSet ==
    [][\A t \in Threads :
        (/\ Depth(t) = 1
         /\ Top(t).op = "set"
         /\ Top(t).items[1][1] = "rpm"
         /\ stack'[t] = <<>>
         /\ listeners \in {<<RpmK, RpmNorm>>, <<RpmNorm, RpmK>>})
        => LET x == Num(Top(t).items[1][2])
               k == RMax(R(0, 1), RMin(R(9, 1), RMul(x, R(1, 1000))))
               norm == RMax(R(0, 1), RMin(R(1, 1), RMul(k, R(1, 9))))
           IN  /\ heap'[StoreObj]["rpm_k"] = PyFloat(k.n, k.d)
               /\ heap'[StoreObj]["rpm_norm"] = PyFloat(norm.n, norm.d)]_vars

\* a set("rpm", 8000) after the load of the page that lists rpm_norm first
\* has returned, and both targets follow it
C14_Witness ==
    /\ ~Busy(Ingestion)
    /\ ret[Ingestion].op = "set"
    /\ listeners = <<RpmNorm, RpmK>>
    /\ Data["rpm"] = PyInt(8000)
    /\ Data["rpm_k"] = PyFloat(8, 1)
    /\ Data["rpm_norm"] = PyFloat(8, 9)

\* C15: with rpm_k derived from rpm_norm and rpm_norm from rpm_k, no call
\* made while a set() of a number is running ever returns: after every step
\* the stack of the thread is at least as deep as before and its innermost
\* frame is about to store, to notify or to recompute, and of two recomputes
\* nested directly in each other the inner one is of the other spec.
C15_CycleNeverReturns ==
    [][\A t \in Threads :
        Busy(t)
        => /\ Len(stack'[t]) >= Depth(t)
           /\ LET top == stack'[t][Len(stack'[t])]
              IN  \/ top.op = "set" /\ top.pc \in {"store", "emit"}
                  \/ top.op = "recompute" /\ top.pc \in {"src", "set"}
           /\ \A j \in 1..(Len(stack'[t]) - 2) :
                 (stack'[t][j].op = "recompute" /\ stack'[t][j + 2].op = "recompute")
                 => stack'[t][j].sp # stack'[t][j + 2].sp
           /\ lockOwner' = NoThread]_vars

\* one set("rpm_k", 8) has led to the third nested store of rpm_k, of
\* 8, 4.5, 2.75 and then 1.875
C15_Witness ==
    /\ calls = 1
    /\ Depth(Ingestion) > 12
    /\ Top(Ingestion).op = "set"
    /\ Top(Ingestion).pc = "emit"
    /\ Top(Ingestion).items[1][1] = "rpm_k"
    /\ Data["rpm_k"] = PyFloat(15, 8)
    /\ Data["rpm_norm"] = PyFloat(15, 4)

\* ------------------------------------------------------------------------
\* Properties of the rule evaluator
\* ------------------------------------------------------------------------

\* the result of a rule against the store
Holds(rule) == Evaluated(rule, Data, <<>>).val

Returned == verdict.done /\ verdict.exc = ""

\* C16: for every store state, All is true iff every child is true (true
\* without children), Any is true iff some child is true (false without
\* children), and Not is the negation of its child, true when the child is
\* a leaf whose channel is absent.
C16_Connectives ==
    verdict.done =>
        /\ cond.kind = "all" =>
              Returned /\ verdict.val = (\A i \in 1..Len(cond.rules) : Holds(cond.rules[i]))
        /\ cond.kind = "any" =>
              Returned /\ verdict.val = (\E i \in 1..Len(cond.rules) : Holds(cond.rules[i]))
        /\ cond.kind = "not" =>
              /\ Returned /\ verdict.val = ~Holds(cond.rules[1])
              /\ (cond.rules[1].kind = "leaf" /\ Data[cond.rules[1].ch] = Absent) => verdict.val

\* Any whose first child is false and second child true has returned true
C16_Witness ==
    /\ Returned
    /\ cond.kind = "any"
    /\ Len(cond.rules) = 2
    /\ ~Holds(cond.rules[1])
    /\ Holds(cond.rules[2])
    /\ verdict.val

HasRatio(rule) == "ratio_to" \in rule.has

\* x is a number equal to zero
IsZero(x) == IsNumber(x) /\ x.n = 0

\* C17: Exists(ch) is true iff ch is in the store with a value that is not
\* None; a leaf whose channel is absent is false, and a leaf with ratio_to
\* whose denominator channel is absent or zero is false.
C17_Presence ==
    verdict.done =>
        /\ cond.kind = "exists" =>
              Returned /\ verdict.val = (Data[cond.ch] \notin {Absent, PyNone})
        /\ (cond.kind = "leaf" /\ Data[cond.ch] = Absent) => Returned /\ ~verdict.val
        /\ (cond.kind = "leaf" /\ HasRatio(cond)
                /\ (Data[cond.ratio_to] = Absent \/ IsZero(Data[cond.ratio_to])))
              => Returned /\ ~verdict.val

\* a "!=" leaf whose channel is absent has returned false
C17_Witness ==
    /\ Returned
    /\ cond.kind = "leaf"
    /\ "!=" \in cond.has
    /\ Data[cond.ch] = Absent
    /\ ~verdict.val

\* C18: a leaf with "in" is true iff the value stored under its channel, as
\* it is stored, equals a member of the list, whatever scale, offset and
\* ratio_to the rule has and whether or not the value reads as a number.
C18_MembershipOnRawValue ==
    (verdict.done /\ cond.kind = "leaf" /\ "in" \in cond.has) =>
        /\ Returned
        /\ verdict.val = (/\ ~IsNone(Data[cond.ch])
                          /\ \E i \in 1..Len(cond.members) :
                                PyEq(Data[cond.ch], cond.members[i]))

IsCompare(rule) == rule.kind = "leaf" /\ rule.has \cap {"between", "in"} = {}

\* the value a leaf compares: the stored one, as a float when it reads as
\* one, after the pre-transform of the rule; absent when there is none
Operand(rule) ==
    IF IsNone(Data[rule.ch]) THEN Absent
    ELSE IF ~HasRatio(rule) THEN PreTransform(rule, Coerced(Data[rule.ch]))
    ELSE IF ~Truthy(DictGet(Data, rule.ratio_to, PyNone)) THEN Absent
    ELSE IF Ratio(Coerced(Data[rule.ch]), Data[rule.ratio_to]) = Absent THEN Absent
    ELSE PreTransform(rule, Ratio(Coerced(Data[rule.ch]), Data[rule.ratio_to]))

C20_BetweenInclusive ==
    (verdict.done /\ cond.kind = "leaf" /\ "between" \in cond.has) =>
        /\ Returned
        /\ verdict.val = (/\ Operand(cond) # Absent
                          /\ ToFloat(Operand(cond)).ok
                          /\ ToFloat(cond.between[1]).ok
                          /\ ToFloat(cond.between[2]).ok
                          /\ RLe(AsNum(cond.between[1]), AsNum(Operand(cond)))
                          /\ RLe(AsNum(Operand(cond)), AsNum(cond.between[2])))

\* the value equals the upper bound and the leaf has returned true
C20_Witness ==
    /\ Returned
    /\ cond.kind = "leaf"
    /\ "between" \in cond.has
    /\ Operand(cond) # Absent
    /\ ToFloat(Operand(cond)).ok
    /\ AsNum(Operand(cond)) = AsNum(cond.between[2])
    /\ verdict.val

\* C21: a leaf without channel key, without operator, with an operator that
\* is not one of the six, or with a between list that has not two bounds
\* evaluates to false and raises nothing, for every store.
C21_MalformedLeafIsFalse == verdict.done => Returned /\ ~verdict.val

\* ------------------------------------------------------------------------
\* Properties of the tick
\* ------------------------------------------------------------------------

\* the tick calls evaluate_visibility on the node Cur, which becomes Aft
VisStep == page.pos # 0 /\ page.phase = "vis" /\ page' # page
Cur == page.nodes[page.pos]
Aft == page'.nodes[page.pos]

\* the rule is configured and true on the store
Fires(rule) == RuleTruthy(rule) /\ Holds(rule)

\* the last tick is over and has evaluated the visibility of node i
Ticked(i) == page.pos = 0 /\ page.raised = "" /\ page.ticks > 0 /\ page.nodes[i].n_vis = 1

\* C22: when a tick evaluates a node with latch whose when-rule and
\* reset_when-rule are both true, the node is latched and visible after
\* it, whatever the latch was before.
C22_ResetThenRearm ==
    [][(VisStep /\ Cur.latch_enabled /\ Fires(Cur.rule) /\ Fires(Cur.reset_rule))
            => Aft.latched /\ Aft.last_visible = PyBool(TRUE)]_vars

\* a second tick with both rules true has left the node latched
C22_Witness ==
    /\ Ticked(1)
    /\ page.ticks = 2
    /\ page.nodes[1].latch_enabled
    /\ Fires(page.nodes[1].rule)
    /\ Fires(page.nodes[1].reset_rule)
    /\ page.nodes[1].latched
    /\ page.nodes[1].last_visible = PyBool(TRUE)

\* C23: a latched node stays latched and visible over every tick on which
\* its reset_when-rule is not true (or that has none), whether or not the
\* when-rule is still true.
C23_LatchIsSticky ==
    [][(VisStep /\ Cur.latch_enabled /\ Cur.latched /\ ~Fires(Cur.reset_rule))
            => Aft.latched /\ Aft.last_visible = PyBool(TRUE)]_vars

\* a tick has found the when-rule false and the node is still latched
C23_Witness ==
    /\ Ticked(1)
    /\ page.nodes[1].latch_enabled
    /\ ~Fires(page.nodes[1].rule)
    /\ ~Fires(page.nodes[1].reset_rule)
    /\ page.nodes[1].latched
    /\ page.nodes[1].last_visible = PyBool(TRUE)

\* the document has no latch, or a false one
Unlatched(doc) == ~("latch" \in doc.has /\ doc.latch)

\* C24: the visibility of a node without latch after a tick is true when it
\* has no rule, and else the value of its rule on the store of that tick:
\* of the plain rule, or of the "when" of a wrapper whose latch is false.
C24_MemorylessWithoutLatch ==
    [][(VisStep /\ Unlatched(Cur.doc))
            => /\ ~Aft.latch_enabled
               /\ Cur.doc.kind = "none" => Aft.last_visible = PyBool(TRUE)
               /\ Cur.doc.kind # "none" /\ Cur.doc.when.kind # "none"
                     => Aft.last_visible = PyBool(Holds(Cur.doc.when))]_vars

\* a node with a wrapper whose latch is false was visible and a later tick
\* has hidden it, its reset_when-rule being false
C24_Witness ==
    /\ Ticked(1)
    /\ page.ticks > 1
    /\ page.nodes[1].doc.kind = "wrapper"
    /\ "latch" \in page.nodes[1].doc.has
    /\ Unlatched(page.nodes[1].doc)
    /\ page.nodes[1].shown = 1
    /\ ~Holds(page.nodes[1].doc.reset_when)
    /\ page.nodes[1].last_visible = PyBool(FALSE)

\* the tick calls update_val on the node Cur, which becomes Aft
ValStep == page.pos # 0 /\ page.phase = "val" /\ page' # page

\* what the node displays
Displayed(e) == <<e.value, e.text, e.last_text>>

\* C25: a node asks for a repaint only when the value or text it displays
\* has changed, calls setVisible only when its visibility has changed, and
\* does each at most once in a tick.
C25_EmitsOnlyOnChange ==
    [][/\ ValStep => /\ Aft.updates > Cur.updates => Displayed(Aft) # Displayed(Cur)
                     /\ Aft.updates <= 1
       /\ VisStep => /\ Aft.shown > Cur.shown => Aft.last_visible # Cur.last_visible
                     /\ Aft.shown <= 1]_vars

\* C26: a tick that finds the channel of a node missing or not a number
\* leaves the text of the node as it was.
C26_TextKeptWithoutNumber ==
    [][(ValStep /\ Cur.channel # NoKey /\ ~ToFloat(Data[Cur.channel]).ok)
            => Aft.text = Cur.text]_vars

\* C27: when a tick is over, update_val and evaluate_visibility have been
\* called once on every node of the page, the nodes of its groups included.
C27_EveryNodeTickedOnce ==
    (page.pos = 0 /\ page.ticks > 0 /\ page.raised = "")
        => \A i \in 1..Len(page.nodes) :
              page.nodes[i].n_val = 1 /\ page.nodes[i].n_vis = 1

\* C28: no tick ends with an exception, whatever the store holds.
C28_TickNeverRaises == page.raised = ""


\* ------------------------------------------------------------------------
\* Properties of the startup pass and of the notifications
\* ------------------------------------------------------------------------

\* the setup of a page load is running in t
InSetup(t) == Busy(t) /\ stack[t][1].op = "setup"

\* the recompute frames of spec j in the stack of t
RecomputesOf(t, j) ==
    {d \in 1..Depth(t) : stack[t][d].op = "recompute" /\ stack[t][d].sp = j}

\* C29: during the startup pass every recompute is entered by the loop of
\* the setup itself, once for the spec it has just connected, and so no
\* spec has more than one recompute, or more than one write of its target,
\* under way at a time; this for a spec without "source" whose target the
\* store holds as well.
C29_StartupRecomputesOnce ==
    \A t \in Threads :
        InSetup(t)
        => \A j \in 1..Len(listeners) :
              /\ Cardinality(RecomputesOf(t, j)) <= 1
              /\ \A d \in RecomputesOf(t, j) : d = 2

\* spec j has k as its source (its target when it has no "source") or as
\* its denominator
Listens(j, k) ==
    \/ listeners[j].source = k
    \/ listeners[j].source = NoKey /\ listeners[j].target = k
    \/ listeners[j].ratio_to = k

\* the key of item x of the write frame f
KeyOf(f, x) == f.items[x][1]

\* the recompute frame at depth d of t was entered by a notification of a
\* key its spec listens to
EnteredByItsKey(t, d) ==
    /\ d > 1
    /\ IsWrite(stack[t][d - 1])
    /\ stack[t][d - 1].pc = "dispatch"
    /\ Listens(stack[t][d].sp, KeyOf(stack[t][d - 1], stack[t][d - 1].i + 1))

\* A step of the emit loop of the write frame f of t: it returns, or enters
\* the recompute of spec sp for item g.i + 1 of the frame g it leaves
\* behind.  No slot the step has passed over listens to the key of its
\* item, and the slot entered does and is the next one after those.
EmitsExactly(t, f) ==
    LET returned == stack'[t] = Popped(t)
        g == stack'[t][Depth(t)]
        sp == stack'[t][Depth(t) + 1].sp
        last == IF returned THEN Len(f.items) ELSE g.i + 1
        lo(x) == IF f.pc = "dispatch" /\ x = f.i + 1 THEN f.li ELSE 1
        hi(x) == IF ~returned /\ x = g.i + 1 THEN sp - 1 ELSE Len(listeners)
    IN  /\ returned \/ /\ Len(stack'[t]) = Depth(t) + 1
                       /\ stack'[t][Depth(t) + 1].op = "recompute"
                       /\ g.pc = "dispatch"
                       /\ g.li = sp + 1
                       /\ Listens(sp, KeyOf(g, g.i + 1))
        /\ \A x \in (f.i + 1)..last :
              \A j \in lo(x)..hi(x) : ~Listens(j, KeyOf(f, x))

\* C30: the notification of a key enters the recompute of every spec that
\* has the key as its source or as its denominator, once and in the order
\* of connection, and of no other spec; a smoothing state or a target
\* changes during a notification only in a recompute entered so, and is
\* that of its spec.
C30_NotifiesItsSpecsOnly ==
    [][\A t \in Threads :
        /\ (Busy(t) /\ IsWrite(Top(t)) /\ Top(t).pc \in {"emit", "dispatch"}
                /\ stack'[t] # stack[t])
            => EmitsExactly(t, Top(t))
        /\ \A k \in Keys :
              (Busy(t) /\ stack'[t] # stack[t])
              => /\ ema_prev'[k] # ema_prev[k]
                       => /\ Top(t).op = "recompute"
                          /\ listeners[Top(t).sp].target = k
                          /\ EnteredByItsKey(t, Depth(t))
                 /\ (Depth(t) > 1 /\ heap'[StoreObj][k] # heap[StoreObj][k])
                       => /\ stack[t][Depth(t) - 1].op = "recompute"
                          /\ listeners[stack[t][Depth(t) - 1].sp].target = k
                          /\ EnteredByItsKey(t, Depth(t) - 1)]_vars

\* update({fuel_capacity_l: 30, gear: 1, rpm: 4500}) has notified the
\* denominator, which only fuel_pct listens to, then gear, which no spec
\* listens to, and now rpm: rpm_k is being recomputed, while the fuel_pct
\* and the rpm_norm of the calls before stand
C30_Witness ==
    /\ Depth(Ingestion) = 2
    /\ stack[Ingestion][1].op = "update"
    /\ stack[Ingestion][1].i = 2
    /\ Top(Ingestion).op = "recompute"
    /\ listeners[Top(Ingestion).sp] = RpmK
    /\ Data["fuel_pct"] = PyFloat(1, 2)
    /\ Data["rpm_norm"] = PyFloat(8, 9)

\* ------------------------------------------------------------------------
\* Further properties of the evaluator and of the latch
\* ------------------------------------------------------------------------

C32_LatchChangesOnlyByItsRules ==
    [][VisStep
        => /\ (Cur.latch_enabled /\ Fires(Cur.reset_rule) /\ ~Fires(Cur.rule))
                => ~Aft.latched /\ Aft.last_visible = PyBool(FALSE)
           /\ Aft.latched # Cur.latched
                => /\ Cur.latch_enabled
                   /\ \/ ~Aft.latched /\ Fires(Cur.reset_rule)
                      \/ Aft.latched /\ Fires(Cur.rule)]_vars

\* a tick after the first has hidden a node with latch: its reset_when-rule
\* is true and its when-rule false
C32_Witness ==
    /\ Ticked(1)
    /\ page.ticks > 1
    /\ page.nodes[1].latch_enabled
    /\ Fires(page.nodes[1].reset_rule)
    /\ ~Fires(page.nodes[1].rule)
    /\ RuleTruthy(page.nodes[1].rule)
    /\ page.nodes[1].shown = 1
    /\ ~page.nodes[1].latched
    /\ page.nodes[1].last_visible = PyBool(FALSE)

\* ------------------------------------------------------------------------
\* Properties of the group translation
\* ------------------------------------------------------------------------

\* float(store.get(ch, 0.0)), 0.0 when float() raises
Shift(ch) ==
    IF Data[ch] = Absent \/ ~ToFloat(Data[ch]).ok THEN R(0, 1) ELSE AsNum(Data[ch])

\* int(q): towards zero
Trunc(q) == IF q.n >= 0 THEN q.n \div q.d ELSE -((-q.n) \div q.d)

\* C33: when a tick is over, the group of the page stands at its anchor
\* (100, 50) plus offset + scale * channel value on each axis, for the
\* channel values of that tick.
C33_GroupFollowsItsChannels ==
    Ticked(1)
    => /\ page.nodes[1].x
            = Trunc(RAdd(R(100, 1),
                         RAdd(Sliding.offset_x, RMul(Sliding.scale_x, Shift(Sliding.dx_ch)))))
       /\ page.nodes[1].y
            = Trunc(RAdd(R(50, 1),
                         RAdd(Sliding.offset_y, RMul(Sliding.scale_y, Shift(Sliding.dy_ch)))))

\* ------------------------------------------------------------------------
\* Properties of the store under a listener and two threads
\* ------------------------------------------------------------------------

\* t has stored rpm in a set("rpm", x) and the set("rpm_k", v) of the
\* listener it has called, or is about to call, has not stored yet
BeforeNestedSet(t) ==
    /\ Busy(t)
    /\ stack[t][1].op = "set"
    /\ stack[t][1].items[1][1] = "rpm"
    /\ \/ Depth(t) = 1 /\ Top(t).pc = "emit"
       \/ Depth(t) = 2 /\ Top(t).op = "recompute" /\ Top(t).pc = "src"
       \/ Depth(t) = 3 /\ Top(t).op = "set" /\ Top(t).pc = "store"

\* C34: the store of a set("rpm", x) changes rpm and leaves rpm_k as it
\* was, and from then until the set("rpm_k", v) of the listener stores, the
\* thread neither holds the lock nor writes: the store holds the new source
\* with the old target, and a get or snapshot of the other thread can run
\* and returns them.
C34_IntermediateStateVisible ==
    [][\A t \in Threads :
        /\ (At(t, "set", "store") /\ Depth(t) = 1 /\ Top(t).items[1][1] = "rpm"
                /\ stack'[t] # stack[t])
            => /\ heap'[StoreObj]["rpm"] = Top(t).items[1][2]
               /\ heap'[StoreObj]["rpm_k"] = Data["rpm_k"]
               /\ lockOwner' # t
        /\ BeforeNestedSet(t)
            => /\ lockOwner # t
               /\ (stack'[t] # stack[t] /\ Depth(t) < 3) => heap'[StoreObj] = Data
               /\ \A u \in Threads \ {t} :
                     /\ (At(u, "get", "read") /\ stack'[u] # stack[u])
                            => ret'[u].val = DictGet(Data, Top(u).items[1][1], PyNone)
                     /\ (At(u, "snapshot", "copy") /\ stack'[u] # stack[u])
                            => heap'[u] = Data]_vars

\* the reader holds a snapshot with the rpm of the set("rpm", 9500) the
\* ingestion is running and the rpm_k of the rpm before, 3000
C34_Witness ==
    /\ BeforeNestedSet(Ingestion)
    /\ stack[Ingestion][1].items[1][2] = PyInt(9500)
    /\ ret[Reader].op = "snapshot"
    /\ heap[Reader]["rpm"] = PyInt(9500)
    /\ heap[Reader]["rpm_k"] = PyFloat(3, 1)

\* no call is running in any thread
Quiescent == \A t \in Threads : ~Busy(t)

\* C35: when every call of the two threads has returned, and rpm is in the
\* store, rpm_k (clamp [0, 9] of rpm / 1000, not smoothed) is the result of
\* the pipeline on the rpm in the store.
C35_QuiescentTargetIsCurrent ==
    (Quiescent /\ Data["rpm"] # Absent)
        => Data["rpm_k"] = PyFloat(Sample(RpmK).n, Sample(RpmK).d)

\* ------------------------------------------------------------------------
\* Properties of the page loads
\* ------------------------------------------------------------------------

\* C36: outside a transform setup the listeners connected to the store, each
\* of which recomputes and writes its target when its key is notified, are
\* the specs of one page document, the one shown last, each once; and a
\* set("rpm", x) enters at most one recompute of rpm_k.
C36_OnlyTheCurrentPageListens ==
    \A t \in Threads :
        ~InSetup(t)
        => /\ listeners = <<>> \/ listeners \in ReloadDocuments
           /\ (Busy(t) /\ stack[t][1].op = "set" /\ stack[t][1].items[1][1] = "rpm")
                 => \A i, j \in 1..Len(listeners) :
                       (i < stack[t][1].li /\ j < stack[t][1].li
                            /\ Listens(i, "rpm") /\ Listens(j, "rpm"))
                       => i = j

\* ------------------------------------------------------------------------
\* Further properties of the transform
\* ------------------------------------------------------------------------

\* x is a number within the clamp of cfg
WithinClamp(cfg, x) == RLe(cfg.clamp[1], Num(x)) /\ RLe(Num(x), cfg.clamp[2])

\* C37: with clamp [lo, hi], every value a recompute hands to
\* channels.set(target, v), every value the target has in the store and
\* every smoothing state lies in [lo, hi], smoothing included.
C37_WritesWithinClamp ==
    \A j \in 1..Len(listeners) :
        Len(listeners[j].clamp) = 2
        => /\ Data[listeners[j].target] # Absent
                 => WithinClamp(listeners[j], Data[listeners[j].target])
           /\ ema_prev[listeners[j].target] # Absent
                 => WithinClamp(listeners[j], ema_prev[listeners[j].target])
           /\ \A t \in Threads : \A d \in 1..Depth(t) :
                 (stack[t][d].op = "set" /\ stack[t][d].items[1][1] = listeners[j].target)
                 => WithinClamp(listeners[j], stack[t][d].items[1][2])

\* fuel_pct was clamped to 2 and the next sample, 1, is smoothed to 1.5
C37_Witness ==
    /\ ~Busy(Ingestion)
    /\ listeners = <<FuelScaled>>
    /\ Data["fuel_capacity_l"] = PyInt(60)
    /\ Data["fuel_pct"] = PyFloat(3, 2)
    /\ ema_prev["fuel_pct"] = PyFloat(3, 2)

\* ------------------------------------------------------------------------
\* Properties of the calls on a page without a dependency cycle
\* ------------------------------------------------------------------------

Greatest(S) == CHOOSE x \in S : \A y \in S : y <= x

\* the number of specs on the longest dependency path that starts at key k
\* and has at most fuel specs: spec j continues a path that has reached a
\* key it listens to (source, or target without source, or ratio_to), and
\* takes it to its target
RECURSIVE ChainFrom(_, _)
ChainFrom(k, fuel) ==
    LET next == {j \in 1..Len(listeners) : Listens(j, k)}
    IN  IF fuel = 0 \/ next = {} THEN 0
        ELSE 1 + Greatest({ChainFrom(listeners[j].target, fuel - 1) : j \in next})

\* no target is reachable from itself: no path passes more specs than there are
Acyclic == \A k \in Keys : ChainFrom(k, Len(listeners) + 1) <= Len(listeners)

LongestChain == Greatest({ChainFrom(k, Len(listeners)) : k \in Keys})

Shown(path) == \E x \in 1..Len(cycler.paths) : cycler.paths[x] = path

\* C39: set_pages(new_paths) does not raise; after it the page shown is the
\* one that was shown before when its path is in new_paths, the first page
\* of new_paths when it is not, and none when new_paths is empty.
C39_SetPagesKeepsCurrent ==
    cycler.op = "set_pages" =>
        /\ cycler.raised = ""
        /\ cycler.paths = <<>> => cycler.current = NoPath
        /\ cycler.paths # <<>> =>
              /\ cycler.current = (IF Shown(cycler.was) THEN cycler.was ELSE cycler.paths[1])
              /\ cycler.idx < Len(cycler.paths)
              /\ cycler.paths[cycler.idx + 1] = cycler.current

\* C40: after every call, idx is a position of paths and current the page
\* of paths[idx], or paths is empty and there is no current page; and
\* next_page has moved idx one position on, from the last to the first.
C40_CyclerInvariant ==
    /\ cycler.paths # <<>> =>
          /\ 0 <= cycler.idx /\ cycler.idx < Len(cycler.paths)
          /\ cycler.current = cycler.paths[cycler.idx + 1]
    /\ cycler.paths = <<>> => cycler.current = NoPath
    /\ (cycler.op = "next_page" /\ cycler.paths # <<>>) =>
          cycler.idx = (cycler.at + 1) % Len(cycler.paths)
====
